---------------------------- MODULE Spec2Model ----------------------------
(***************************************************************************)
(* A model of the grading core of ai-autograder:                           *)
(*   src/src/lib/grading/deterministicGrader.ts  (parseNumber,             *)
(*       normalizeAlgebraExpression, gradeDeterministic, gradeWithLLM)     *)
(*   src/unnamed/part_012                        (matchAlgebraExpressions) *)
(*   src/unnamed/part_008                        (getAnswerType,           *)
(*       inferTypeAndCanonical)                                            *)
(*   src/unnamed/part_003                        (the extraction endpoint) *)
(*   src/src/pages/api/grade.ts                  (the grading endpoint)    *)
(*                                                                         *)
(* Text is a sequence of characters; a character is a one-element string   *)
(* for ASCII and a code-point name ("U221A" for the radical sign) for the  *)
(* glyphs the code names.  Numbers are exact rationals [n, d] with d > 0   *)
(* (the rounding of IEEE doubles is not modelled); confidences and scores  *)
(* are in hundredths (0.9 is 90, 0.5 is 50).                               *)
(***************************************************************************)
EXTENDS Integers, Sequences, FiniteSets, TLC

VARIABLES
    pc,          \* position of the one grading invocation
    entry,       \* which exported function was called
    payload,     \* the SubmissionPayload argument
    canonical,   \* the Canonical argument
    oracleImpl,  \* the module bound to matchAlgebraExpressions
    oracle,      \* the promise matchAlgebraExpressions returned
    oracleCalls, \* invocations of matchAlgebraExpressions by this call
    request,     \* the external chat-completion request of the shipped oracle
    requests,    \* external chat-completion requests issued by this call
    outcome,     \* the value returned / the promise gradeWithLLM returned
    argument,    \* the arguments of a call of a text function
    calls        \* the gradeWithLLM invocations in flight at the same time

vars == <<pc, entry, payload, canonical, oracleImpl, oracle, oracleCalls,
          request, requests, outcome, argument, calls>>

\* An optional field holds Undefined (JavaScript's undefined or null) or
\* Some(value).
Undefined == <<>>

Some(x) == <<x>>

-----------------------------------------------------------------------------
(* Characters                                                              *)

Digits == {"0", "1", "2", "3", "4", "5", "6", "7", "8", "9"}

LowerSeq == <<"a", "b", "c", "d", "e", "f", "g", "h", "i", "j", "k", "l", "m",
              "n", "o", "p", "q", "r", "s", "t", "u", "v", "w", "x", "y", "z">>

UpperSeq == <<"A", "B", "C", "D", "E", "F", "G", "H", "I", "J", "K", "L", "M",
              "N", "O", "P", "Q", "R", "S", "T", "U", "V", "W", "X", "Y", "Z">>

Lower == {LowerSeq[i] : i \in 1..26}

Upper == {UpperSeq[i] : i \in 1..26}

\* The glyphs normalizeAlgebraExpression and normalizeSimple name.
Radic == "U221A"

CubeRoot == "U221B"

PiGlyph == "U03C0"

InfGlyph == "U221E"

Times == "U00D7"

MidDot == "U00B7"

Bullet == "U2022"

DivSign == "U00F7"

\* Superscript digit glyphs, indexed by digit + 1.
SuperSeq == <<"U2070", "U00B9", "U00B2", "U00B3", "U2074", "U2075", "U2076",
              "U2077", "U2078", "U2079">>

DigitSeq == <<"0", "1", "2", "3", "4", "5", "6", "7", "8", "9">>

\* \s of a JavaScript regular expression, and what String.prototype.trim strips.
WhiteSpace == {" ", "\t"}

IsDigit(c) == c \in Digits

IsLower(c) == c \in Lower

IsLetter(c) == c \in Lower \cup Upper

IsSpace(c) == c \in WhiteSpace

DigitVal(c) == CHOOSE v \in 0..9 : DigitSeq[v + 1] = c

\* String.prototype.toLowerCase on one character.
ToLowerChar(c) ==
    IF c \in Upper THEN LowerSeq[CHOOSE i \in 1..26 : UpperSeq[i] = c] ELSE c

\* String.prototype.toUpperCase on one character.
ToUpperChar(c) ==
    IF c \in Lower THEN UpperSeq[CHOOSE i \in 1..26 : LowerSeq[i] = c] ELSE c

toLowerCase(s) == [i \in 1..Len(s) |-> ToLowerChar(s[i])]

toUpperCase(s) == [i \in 1..Len(s) |-> ToUpperChar(s[i])]

\* Number of leading / trailing white-space characters of s.
RECURSIVE LeadingSpaces(_)
LeadingSpaces(s) ==
    IF s # <<>> /\ IsSpace(Head(s)) THEN 1 + LeadingSpaces(Tail(s)) ELSE 0

RECURSIVE TrailingSpaces(_)
TrailingSpaces(s) ==
    IF s # <<>> /\ IsSpace(s[Len(s)])
    THEN 1 + TrailingSpaces(SubSeq(s, 1, Len(s) - 1))
    ELSE 0

\* String.prototype.trim.
trim(s) ==
    LET a == LeadingSpaces(s)
    IN  IF a = Len(s) THEN <<>> ELSE SubSeq(s, a + 1, Len(s) - TrailingSpaces(s))

\* Length of the longest run of digits of s that starts at index i.
RECURSIVE DigitRun(_, _)
DigitRun(s, i) ==
    IF i <= Len(s) /\ IsDigit(s[i]) THEN 1 + DigitRun(s, i + 1) ELSE 0

\* The strings over alphabet A of length exactly n, and of length at most n.
RECURSIVE StringsOfLen(_, _)
StringsOfLen(A, n) ==
    IF n = 0 THEN {<<>>}
    ELSE {Append(s, c) : s \in StringsOfLen(A, n - 1), c \in A}

StringsUpTo(A, n) == UNION {StringsOfLen(A, k) : k \in 0..n}

-----------------------------------------------------------------------------
(* Numbers: the finite values of a JavaScript number that the grader meets, *)
(* as exact rationals.  NaN and the infinities are the values that          *)
(* Number.isFinite rejects.                                                 *)

NaN == [nan |-> TRUE]

Infinite == [inf |-> TRUE]

\* The null that parseNumber returns.
Null == [null |-> TRUE]

isFinite(x) == x \notin {NaN, Infinite}

Abs(i) == IF i < 0 THEN -i ELSE i

RECURSIVE Gcd(_, _)
Gcd(a, b) == IF b = 0 THEN a ELSE Gcd(b, a % b)

\* The rational n/d (d # 0) in lowest terms with a positive denominator.
Rat(n, d) ==
    LET g == Gcd(Abs(n), Abs(d))
        s == IF d < 0 THEN -1 ELSE 1
    IN  [n |-> (s * n) \div g, d |-> Abs(d) \div g]

RatSub(a, b) == Rat(a.n * b.d - b.n * a.d, a.d * b.d)

RatAbs(a) == [n |-> Abs(a.n), d |-> a.d]

\* a <= b, comparing integer parts and then the reciprocals of the fractional
\* parts, so that no product larger than the operands is formed.
RECURSIVE RatLeq(_, _)
RatLeq(a, b) ==
    LET qa == a.n \div a.d
        qb == b.n \div b.d
        ra == a.n % a.d
        rb == b.n % b.d
    IN  IF qa # qb THEN qa < qb
        ELSE IF ra = 0 THEN TRUE
        ELSE IF rb = 0 THEN FALSE
        ELSE RatLeq([n |-> b.d, d |-> rb], [n |-> a.d, d |-> ra])

RatLess(a, b) == ~RatLeq(b, a)

RatMax(a, b) == IF RatLeq(a, b) THEN b ELSE a

RECURSIVE Pow10(_)
Pow10(k) == IF k = 0 THEN 1 ELSE 10 * Pow10(k - 1)

\* The value of the k decimal digits of s that start at index i.
RECURSIVE IntVal(_, _, _)
IntVal(s, i, k) ==
    IF k = 0 THEN 0
    ELSE 10 * IntVal(s, i, k - 1) + DigitVal(s[i + k - 1])

\* Digit value of c in the given radix, or -1.
RadixDigit(c, radix) ==
    LET v == IF IsDigit(c) THEN DigitVal(c)
             ELSE IF ToLowerChar(c) \in {"a", "b", "c", "d", "e", "f"}
                  THEN 9 + (CHOOSE i \in 1..6 : LowerSeq[i] = ToLowerChar(c))
                  ELSE -1
    IN  IF v < radix THEN v ELSE -1

RECURSIVE RadixVal(_, _, _)
RadixVal(s, k, radix) ==
    IF k = 0 THEN 0
    ELSE radix * RadixVal(s, k - 1, radix) + RadixDigit(s[k], radix)

\* StrDecimalLiteral without its sign: digits [. digits] | . digits, then an
\* optional exponent part; NaN when b is not of that form.
StrUnsignedDecimal(b) ==
    LET i      == DigitRun(b, 1)
        hasDot == i + 1 <= Len(b) /\ b[i + 1] = "."
        f      == IF hasDot THEN DigitRun(b, i + 2) ELSE 0
        mEnd   == i + (IF hasDot THEN 1 + f ELSE 0)
        mantOk == i > 0 \/ (hasDot /\ f > 0)
        mant   == IntVal(b, 1, i) * Pow10(f) + IntVal(b, i + 2, f)
        hasExp == mEnd + 1 <= Len(b) /\ b[mEnd + 1] \in {"e", "E"}
        hasSgn == hasExp /\ mEnd + 2 <= Len(b) /\ b[mEnd + 2] \in {"+", "-"}
        eStart == mEnd + (IF hasSgn THEN 3 ELSE 2)
        eLen   == IF hasExp THEN DigitRun(b, eStart) ELSE 0
        expo   == IntVal(b, eStart, eLen)
    IN  IF ~mantOk THEN NaN
        ELSE IF ~hasExp
             THEN IF mEnd = Len(b) THEN Rat(mant, Pow10(f)) ELSE NaN
        ELSE IF eLen = 0 \/ eStart + eLen - 1 # Len(b) THEN NaN
        ELSE IF hasSgn /\ b[mEnd + 2] = "-"
             THEN Rat(mant, Pow10(f) * Pow10(expo))
        ELSE Rat(mant * Pow10(expo), Pow10(f))

InfinityLit == <<"I", "n", "f", "i", "n", "i", "t", "y">>

\* The radix of a NonDecimalIntegerLiteral prefix (0x, 0o, 0b), or 0.
RadixOf(t) ==
    IF Len(t) >= 3 /\ t[1] = "0"
    THEN CASE t[2] \in {"x", "X"} -> 16
           [] t[2] \in {"o", "O"} -> 8
           [] t[2] \in {"b", "B"} -> 2
           [] OTHER -> 0
    ELSE 0

RadixLiteral(t, radix) ==
    IF \A k \in 3..Len(t) : RadixDigit(t[k], radix) >= 0
    THEN Rat(RadixVal(SubSeq(t, 3, Len(t)), Len(t) - 2, radix), 1)
    ELSE NaN

ApplySign(u, negative) ==
    IF u = NaN THEN NaN
    ELSE IF negative THEN [n |-> -u.n, d |-> u.d]
    ELSE u

\* StrDecimalLiteral: b is the literal without its sign.
StrDecimal(b, negative) ==
    IF b = InfinityLit THEN Infinite
    ELSE ApplySign(StrUnsignedDecimal(b), negative)

\* StringToNumber on text without outer white space.
NumberTrimmed(t) ==
    IF t = <<>> THEN Rat(0, 1)
    ELSE IF RadixOf(t) # 0 THEN RadixLiteral(t, RadixOf(t))
    ELSE IF t[1] \in {"+", "-"} THEN StrDecimal(Tail(t), t[1] = "-")
    ELSE StrDecimal(t, FALSE)

\* Number(text): the StringToNumber conversion.
Number(text) == NumberTrimmed(trim(text))

\* /^[-+]?\d+\/\d+$/.test(t)
IsFractionText(t) ==
    LET s == IF t # <<>> /\ t[1] \in {"+", "-"} THEN 1 ELSE 0
        i == DigitRun(t, s + 1)
        j == DigitRun(t, s + i + 2)
    IN  /\ i > 0
        /\ s + i + 1 <= Len(t)
        /\ t[s + i + 1] = "/"
        /\ j > 0
        /\ s + i + 1 + j = Len(t)

\* A variant of Quotient that takes a fraction over zero to be zero.
QuotientOverZero(n, d) ==
    IF ~isFinite(n) \/ ~isFinite(d) THEN Null
    ELSE IF d.n = 0 THEN Rat(0, 1)
    ELSE Rat(n.n * d.d, n.d * d.n)

\* Lines 9-10: the quotient of the two parts of a fraction.
Quotient(n, d) ==
    IF ~isFinite(n) \/ ~isFinite(d) \/ d.n = 0 THEN Null
    ELSE Rat(n.n * d.d, n.d * d.n)

\* Lines 13-14.
FiniteOrNull(num) == IF isFinite(num) THEN num ELSE Null

\* Index of the "/" of a fraction text.
SlashIndex(t) == CHOOSE k \in 1..Len(t) : t[k] = "/"

\* Lines 7-14, on the trimmed input.
ParseTrimmed(trimmed) ==
    IF IsFractionText(trimmed)
    THEN Quotient(Number(SubSeq(trimmed, 1, SlashIndex(trimmed) - 1)),
                  Number(SubSeq(trimmed, SlashIndex(trimmed) + 1, Len(trimmed))))
    ELSE FiniteOrNull(Number(trimmed))

\* parseNumber: Null when the text is no finite number.
parseNumber(input) == ParseTrimmed(trim(input))

-----------------------------------------------------------------------------
(* normalizeAlgebraExpression: a pipeline of global regular-expression      *)
(* replacements.  A global replace scans left to right; at each index it    *)
(* either replaces the match that starts there and continues after it, or   *)
(* copies one character.                                                    *)

SqrtName == <<"s", "q", "r", "t">>

\* s.replace(/c/g, rep) for a single character c.
RECURSIVE ReplaceChar(_, _, _)
ReplaceChar(s, c, rep) ==
    IF s = <<>> THEN <<>>
    ELSE (IF Head(s) = c THEN rep ELSE <<Head(s)>>) \o ReplaceChar(Tail(s), c, rep)

\* prefix occurs in s at index i.
OccursAt(s, i, prefix) ==
    /\ i + Len(prefix) - 1 <= Len(s)
    /\ SubSeq(s, i, i + Len(prefix) - 1) = prefix

\* Length matched at index i by the group (\d+) or ([a-zA-Z]).
GroupLen(s, i, cls) ==
    IF cls = "digits" THEN DigitRun(s, i)
    ELSE IF i <= Len(s) /\ IsLetter(s[i]) THEN 1 ELSE 0

\* s.replace(/<prefix>(<cls>)/g, 'sqrt($1)'), scanning from index i.
RECURSIVE SqrtWrapFrom(_, _, _, _)
SqrtWrapFrom(s, i, prefix, cls) ==
    LET p == Len(prefix)
        g == IF OccursAt(s, i, prefix) THEN GroupLen(s, i + p, cls) ELSE 0
    IN  IF i > Len(s) THEN <<>>
        ELSE IF g > 0
             THEN SqrtName \o <<"(">> \o SubSeq(s, i + p, i + p + g - 1) \o <<")">>
                  \o SqrtWrapFrom(s, i + p + g, prefix, cls)
        ELSE <<s[i]>> \o SqrtWrapFrom(s, i + 1, prefix, cls)

SqrtWrap(s, prefix, cls) == SqrtWrapFrom(s, 1, prefix, cls)

\* Index of the first ")" of s at or after i, or 0.
RECURSIVE FirstClose(_, _)
FirstClose(s, i) ==
    IF i > Len(s) THEN 0
    ELSE IF s[i] = ")" THEN i
    ELSE FirstClose(s, i + 1)

\* s.replace(/√\(([^)]+)\)/g, 'sqrt($1)'), scanning from index i.
RECURSIVE RadicParenFrom(_, _)
RadicParenFrom(s, i) ==
    LET j == IF OccursAt(s, i, <<Radic, "(">>) THEN FirstClose(s, i + 2) ELSE 0
    IN  IF i > Len(s) THEN <<>>
        ELSE IF j >= i + 3
             THEN SqrtName \o SubSeq(s, i + 1, j) \o RadicParenFrom(s, j + 1)
        ELSE <<s[i]>> \o RadicParenFrom(s, i + 1)

\* The superscript replacements of lines 28-37, in the code's order:
\* 2 3 4 5 6 7 8 9 0 1.
SuperOrder == <<2, 3, 4, 5, 6, 7, 8, 9, 0, 1>>

\* A variant of ReplaceSupers that writes the digit without a caret.
RECURSIVE ReplaceSupersBare(_, _)
ReplaceSupersBare(s, k) ==
    IF k > Len(SuperOrder) THEN s
    ELSE ReplaceSupersBare(
             ReplaceChar(s, SuperSeq[SuperOrder[k] + 1],
                         <<DigitSeq[SuperOrder[k] + 1]>>),
             k + 1)

RECURSIVE ReplaceSupers(_, _)
ReplaceSupers(s, k) ==
    IF k > Len(SuperOrder) THEN s
    ELSE ReplaceSupers(
             ReplaceChar(s, SuperSeq[SuperOrder[k] + 1],
                         <<"^", DigitSeq[SuperOrder[k] + 1]>>),
             k + 1)

\* s.replace(/\s+/g, '')
RemoveSpaces(s) == SelectSeq(s, LAMBDA c : ~IsSpace(c))

\* s.replace(/(\d+)([a-z])/g, '$1*$2'), scanning from index i.
RECURSIVE MulDigitLetterFrom(_, _)
MulDigitLetterFrom(s, i) ==
    LET k == DigitRun(s, i)
    IN  IF i > Len(s) THEN <<>>
        ELSE IF k > 0 /\ i + k <= Len(s) /\ IsLower(s[i + k])
             THEN SubSeq(s, i, i + k - 1) \o <<"*", s[i + k]>>
                  \o MulDigitLetterFrom(s, i + k + 1)
        ELSE <<s[i]>> \o MulDigitLetterFrom(s, i + 1)

\* s.replace(/([a-z])(\d+)/g, '$1*$2'), scanning from index i.
RECURSIVE MulLetterDigitFrom(_, _)
MulLetterDigitFrom(s, i) ==
    LET k == IF i <= Len(s) /\ IsLower(s[i]) THEN DigitRun(s, i + 1) ELSE 0
    IN  IF i > Len(s) THEN <<>>
        ELSE IF k > 0
             THEN <<s[i], "*">> \o SubSeq(s, i + 1, i + k)
                  \o MulLetterDigitFrom(s, i + k + 1)
        ELSE <<s[i]>> \o MulLetterDigitFrom(s, i + 1)

\* s.replace(/([a-z])([a-z])(?![a-z])/g, '$1*$2'), scanning from index i.
RECURSIVE MulLetterLetterFrom(_, _)
MulLetterLetterFrom(s, i) ==
    IF i > Len(s) THEN <<>>
    ELSE IF /\ i + 1 <= Len(s)
            /\ IsLower(s[i])
            /\ IsLower(s[i + 1])
            /\ ~(i + 2 <= Len(s) /\ IsLower(s[i + 2]))
         THEN <<s[i], "*", s[i + 1]>> \o MulLetterLetterFrom(s, i + 2)
    ELSE <<s[i]>> \o MulLetterLetterFrom(s, i + 1)

\* Lines 18-27: trim, lower-case, radical and constant glyphs.
NormGlyphs(expr) ==
    LET r0 == toLowerCase(trim(expr))
        r1 == SqrtWrap(r0, <<Radic>>, "digits")
        r2 == SqrtWrap(r1, <<Radic>>, "letter")
        r3 == RadicParenFrom(r2, 1)
        r4 == ReplaceChar(r3, Radic, SqrtName)
        r5 == ReplaceChar(r4, CubeRoot, <<"c", "b", "r", "t">>)
        r6 == ReplaceChar(r5, PiGlyph, <<"p", "i">>)
    IN  ReplaceChar(r6, InfGlyph, <<"i", "n", "f", "i", "n", "i", "t", "y">>)

\* Lines 28-45: superscripts, multiplication and division glyphs.
NormOperators(r) ==
    LET r1 == ReplaceSupers(r, 1)
        r2 == ReplaceChar(r1, Times, <<"*">>)
        r3 == ReplaceChar(r2, MidDot, <<"*">>)
        r4 == ReplaceChar(r3, Bullet, <<"*">>)
    IN  ReplaceChar(r4, DivSign, <<"/">>)

\* Lines 47-52: parenthesise sqrt arguments, then drop white space.
NormSqrtSpaces(r) ==
    RemoveSpaces(SqrtWrap(SqrtWrap(r, SqrtName, "digits"), SqrtName, "letter"))

\* Lines 54-62: explicit multiplication.
NormMultiplication(r) ==
    MulLetterLetterFrom(MulLetterDigitFrom(MulDigitLetterFrom(r, 1), 1), 1)

normalizeAlgebraExpression(expr) ==
    NormMultiplication(NormSqrtSpaces(NormOperators(NormGlyphs(expr))))

\* normalizeSimple of matchAlgebraExpressions' catch block.
normalizeSimple(expr) ==
    LET r1 == RemoveSpaces(toLowerCase(expr))
        r2 == ReplaceChar(r1, Radic, SqrtName)
        r3 == ReplaceChar(r2, PiGlyph, <<"p", "i">>)
        r4 == ReplaceChar(r3, SuperSeq[3], <<"^", "2">>)
    IN  ReplaceChar(r4, SuperSeq[4], <<"^", "3">>)

-----------------------------------------------------------------------------
(* types.ts: payloads, canonical answers and grade responses.              *)
(*                                                                         *)
(* A canonical value is a bare string, StringValue(text), or an object of  *)
(* the kind's shape.  A reason is a tuple: <<code>> for a plain code and   *)
(* <<code>> \o explanation for the template `${code}: ${reason}`.          *)

Kinds == {"numeric", "mc", "short", "algebra"}

StringValue(t) == [isString |-> TRUE, str |-> t]

CanonicalNumeric(num, units, tolerance) ==
    [isString |-> FALSE, num |-> num, units |-> units, tolerance |-> tolerance]

CanonicalShort(text, synonyms) ==
    [isString |-> FALSE, text |-> text, synonyms |-> synonyms]

CanonicalAlgebra(expression, synonyms) ==
    [isString |-> FALSE, expression |-> expression, synonyms |-> synonyms]

Canonical(type, value) == [type |-> type, value |-> value]

SubmissionPayload(source, type, numeric, mc, short, algebra, ocrConf) ==
    [source |-> source, type |-> type, numeric |-> numeric, mc |-> mc,
     short |-> short, algebra |-> algebra, ocrConf |-> ocrConf]

GradeResponse(result, score, reasons) ==
    [result |-> result, score |-> score, reasons |-> reasons]

\* Scores are in hundredths.
ScoreOne == 100

ScoreHalf == 50

\* A JavaScript string is truthy when it is not empty.
Truthy(o) == o # Undefined /\ o[1] # <<>>

\* xs.includes(x)
Includes(xs, x) == \E i \in 1..Len(xs) : xs[i] = x

\* xs.map(f)
Map(xs, f(_)) == [i \in 1..Len(xs) |-> f(xs[i])]

-----------------------------------------------------------------------------
(* gradeDeterministic                                                      *)

\* Line 89: the tolerance when the canonical sets none.
AutoTolerance(cNum) ==
    LET a == RatAbs(cNum)
    IN  RatMax(Rat(a.n, a.d * 200),
               IF RatLess(a, Rat(1, 1)) THEN Rat(1, 100) ELSE Rat(0, 1))

\* A variant of WithinTolerance that excludes the boundary.
WithinToleranceStrict(sNum, cNum, customTolerance) ==
    LET tol == IF customTolerance # Undefined THEN customTolerance[1]
               ELSE AutoTolerance(cNum)
    IN  RatLess(RatAbs(RatSub(sNum, cNum)), tol)

\* Lines 89-90.
WithinTolerance(sNum, cNum, customTolerance) ==
    LET tol == IF customTolerance # Undefined THEN customTolerance[1]
               ELSE AutoTolerance(cNum)
    IN  RatLeq(RatAbs(RatSub(sNum, cNum)), tol)

\* Lines 92-98.
UnitsReasons(cUnits, sUnits) ==
    IF Truthy(cUnits)
    THEN IF Truthy(sUnits) /\ sUnits = cUnits
         THEN <<<<"UNITS_OK">>>>
         ELSE <<<<"UNITS_MISSING_OR_MISMATCH">>>>
    ELSE <<>>

\* Line 91.
ToleranceReasons(within, customTolerance) ==
    IF within
    THEN IF customTolerance # Undefined
         THEN <<<<"NUM_WITHIN_CUSTOM_TOL">>>>
         ELSE <<<<"NUM_WITHIN_AUTO_TOL">>>>
    ELSE <<>>

\* A variant of NumericVerdict that fails an answer without the required
\* units.
NumericVerdictUnitsDecide(within, customTolerance, cUnits, sUnits) ==
    GradeResponse(IF within /\ UnitsReasons(cUnits, sUnits) # <<<<"UNITS_MISSING_OR_MISMATCH">>>>
                  THEN "PASS" ELSE "FAIL",
                  IF within /\ UnitsReasons(cUnits, sUnits) # <<<<"UNITS_MISSING_OR_MISMATCH">>>>
                  THEN ScoreOne ELSE 0,
                  ToleranceReasons(within, customTolerance)
                      \o UnitsReasons(cUnits, sUnits))

\* Lines 90-99, once both numbers have parsed.
NumericVerdict(within, customTolerance, cUnits, sUnits) ==
    GradeResponse(IF within THEN "PASS" ELSE "FAIL",
                  IF within THEN ScoreOne ELSE 0,
                  ToleranceReasons(within, customTolerance)
                      \o UnitsReasons(cUnits, sUnits))

\* A variant of NumericCompare that fails an answer it cannot parse.
NumericCompareAutoFail(sNum, cNum, customTolerance, cUnits, sUnits) ==
    IF sNum = Null \/ cNum = Null
    THEN GradeResponse("FAIL", 0, <<<<"NUM_PARSE_FAIL">>>>)
    ELSE NumericVerdict(WithinTolerance(sNum, cNum, customTolerance),
                        customTolerance, cUnits, sUnits)

\* Lines 85-99.
NumericCompare(sNum, cNum, customTolerance, cUnits, sUnits) ==
    IF sNum = Null \/ cNum = Null
    THEN GradeResponse("REVIEW", 0, <<<<"NUM_PARSE_FAIL">>>>)
    ELSE NumericVerdict(WithinTolerance(sNum, cNum, customTolerance),
                        customTolerance, cUnits, sUnits)

\* Lines 78-82: the fields read from the canonical and from the payload.
CanonicalNum(c) == IF c.value.isString THEN c.value.str ELSE c.value.num

CanonicalUnits(c) == IF c.value.isString THEN Undefined ELSE c.value.units

CanonicalTolerance(c) == IF c.value.isString THEN Undefined ELSE c.value.tolerance

SubmittedNum(p) == IF p.numeric = Undefined THEN <<>> ELSE p.numeric[1].num

SubmittedUnits(p) == IF p.numeric = Undefined THEN Undefined ELSE p.numeric[1].units

\* Lines 77-100.
GradeNumeric(p, c) ==
    NumericCompare(parseNumber(SubmittedNum(p)), parseNumber(CanonicalNum(c)),
                   CanonicalTolerance(c), CanonicalUnits(c), SubmittedUnits(p))

\* A variant of GradeMC that compares the letters without regard to case.
GradeMCIgnoreCase(p, c) ==
    LET correct == toUpperCase(trim(c.value.str))
        choice  == toUpperCase(trim(IF p.mc = Undefined THEN <<>> ELSE p.mc[1].choice))
        pass    == choice # <<>> /\ choice = correct
    IN  GradeResponse(IF pass THEN "PASS" ELSE "FAIL",
                      IF pass THEN ScoreOne ELSE 0,
                      <<<<IF pass THEN "MC_MATCH" ELSE "MC_MISMATCH">>>>)

\* Lines 102-107.
GradeMC(p, c) ==
    LET correct == trim(c.value.str)
        choice  == trim(IF p.mc = Undefined THEN <<>> ELSE p.mc[1].choice)
        pass    == choice # <<>> /\ choice = correct
    IN  GradeResponse(IF pass THEN "PASS" ELSE "FAIL",
                      IF pass THEN ScoreOne ELSE 0,
                      <<<<IF pass THEN "MC_MATCH" ELSE "MC_MISMATCH">>>>)

\* A text trimmed and lowercased.
Folded(text) == toLowerCase(trim(text))

\* A variant of GradeShort that trims and lowercases the synonyms too.
GradeShortFoldedSynonyms(p, c) ==
    LET base      == c.value
        correct   == Folded(IF base.isString THEN base.str ELSE base.text)
        synonyms  == IF ~base.isString /\ base.synonyms # Undefined
                     THEN Map(base.synonyms[1], Folded) ELSE <<>>
        submitted == Folded(IF p.short = Undefined THEN <<>> ELSE p.short[1].text)
        pass      == submitted # <<>>
                     /\ (submitted = correct \/ Includes(synonyms, submitted))
    IN  GradeResponse(IF pass THEN "PASS" ELSE "FAIL",
                      IF pass THEN ScoreOne ELSE 0,
                      <<<<IF pass THEN "SHORT_MATCH" ELSE "SHORT_MISMATCH">>>>)

\* Lines 109-119.
GradeShort(p, c) ==
    LET base      == c.value
        correct   == toLowerCase(trim(IF base.isString THEN base.str ELSE base.text))
        synonyms  == IF ~base.isString /\ base.synonyms # Undefined
                     THEN base.synonyms[1] ELSE <<>>
        submitted == toLowerCase(trim(IF p.short = Undefined THEN <<>>
                                      ELSE p.short[1].text))
        pass      == submitted # <<>>
                     /\ (submitted = correct \/ Includes(synonyms, submitted))
    IN  GradeResponse(IF pass THEN "PASS" ELSE "FAIL",
                      IF pass THEN ScoreOne ELSE 0,
                      <<<<IF pass THEN "SHORT_MATCH" ELSE "SHORT_MISMATCH">>>>)

\* Lines 122-127 and 157-162: the canonical expression, trimmed.
AlgebraCorrect(c) ==
    trim(IF c.value.isString THEN c.value.str
         ELSE IF "expression" \in DOMAIN c.value THEN c.value.expression
         ELSE <<>>)

\* Lines 124-127 and 159-162: the canonical synonyms, each trimmed.
AlgebraSynonyms(c) ==
    IF /\ ~c.value.isString
       /\ "synonyms" \in DOMAIN c.value
       /\ c.value.synonyms # Undefined
    THEN Map(c.value.synonyms[1], trim)
    ELSE <<>>

\* A variant of AlgebraSubmitted that keeps the surrounding white space.
AlgebraSubmittedUntrimmed(p) ==
    IF p.algebra = Undefined THEN <<>> ELSE p.algebra[1].expression

\* Lines 128 and 163: the submitted expression, trimmed.
AlgebraSubmitted(p) ==
    trim(IF p.algebra = Undefined THEN <<>> ELSE p.algebra[1].expression)

\* A variant of GradeAlgebra that compares the synonyms as stored.
GradeAlgebraRawSynonyms(p, c) ==
    LET normalizedSubmitted == normalizeAlgebraExpression(AlgebraSubmitted(p))
        normalizedCorrect   == normalizeAlgebraExpression(AlgebraCorrect(c))
        pass == normalizedSubmitted # <<>>
                /\ (normalizedSubmitted = normalizedCorrect
                    \/ Includes(AlgebraSynonyms(c), normalizedSubmitted))
    IN  GradeResponse(IF pass THEN "PASS" ELSE "FAIL",
                      IF pass THEN ScoreOne ELSE 0,
                      <<<<IF pass THEN "ALGEBRA_MATCH" ELSE "ALGEBRA_MISMATCH">>>>)

\* Lines 121-141.
GradeAlgebra(p, c) ==
    LET normalizedSubmitted == normalizeAlgebraExpression(AlgebraSubmitted(p))
        normalizedCorrect   == normalizeAlgebraExpression(AlgebraCorrect(c))
        normalizedSynonyms  == Map(AlgebraSynonyms(c), normalizeAlgebraExpression)
        pass == normalizedSubmitted # <<>>
                /\ (normalizedSubmitted = normalizedCorrect
                    \/ Includes(normalizedSynonyms, normalizedSubmitted))
    IN  GradeResponse(IF pass THEN "PASS" ELSE "FAIL",
                      IF pass THEN ScoreOne ELSE 0,
                      <<<<IF pass THEN "ALGEBRA_MATCH" ELSE "ALGEBRA_MISMATCH">>>>)

\* A variant of TypeMismatch that fails the answer.
TypeMismatchAutoFail == GradeResponse("FAIL", 0, <<<<"TYPE_MISMATCH">>>>)

\* Lines 73-75.
TypeMismatch == GradeResponse("REVIEW", 0, <<<<"TYPE_MISMATCH">>>>)

\* A variant of gradeDeterministic that sends an extraction of low confidence
\* to review.
gradeDeterministicGated(p, c) ==
    IF p.ocrConf # Undefined /\ p.ocrConf[1] < 98
    THEN GradeResponse("REVIEW", 0, <<<<"LOW_CONFIDENCE">>>>)
    ELSE IF p.type # c.type THEN TypeMismatch
    ELSE CASE p.type = "numeric" -> GradeNumeric(p, c)
           [] p.type = "mc"      -> GradeMC(p, c)
           [] p.type = "short"   -> GradeShort(p, c)
           [] p.type = "algebra" -> GradeAlgebra(p, c)
           [] OTHER -> GradeResponse("REVIEW", 0, <<<<"UNHANDLED_TYPE">>>>)

gradeDeterministic(p, c) ==
    IF p.type # c.type THEN TypeMismatch
    ELSE CASE p.type = "numeric" -> GradeNumeric(p, c)
           [] p.type = "mc"      -> GradeMC(p, c)
           [] p.type = "short"   -> GradeShort(p, c)
           [] p.type = "algebra" -> GradeAlgebra(p, c)
           [] OTHER -> GradeResponse("REVIEW", 0, <<<<"UNHANDLED_TYPE">>>>)

-----------------------------------------------------------------------------
(* matchAlgebraExpressions (src/unnamed/part_012)                          *)

\* Confidences are in hundredths.
QuickConfidence == 100

LLMConfidence == 95

FallbackConfidence == 70

OracleReply(match, confidence, reason) ==
    [match |-> match, confidence |-> confidence, reason |-> reason]

\* A variant of QuickReply that does not look at the synonyms.
QuickReplyExactOnly(submitted, correct, synonyms) ==
    IF trim(submitted) = <<>> \/ trim(correct) = <<>>
    THEN Some(OracleReply(FALSE, QuickConfidence, <<"Empty expression">>))
    ELSE IF trim(submitted) = trim(correct)
    THEN Some(OracleReply(TRUE, QuickConfidence, <<"Exact match">>))
    ELSE Undefined

\* Lines 10-23: the reply given before the try block is entered, if any.
QuickReply(submitted, correct, synonyms) ==
    IF trim(submitted) = <<>> \/ trim(correct) = <<>>
    THEN Some(OracleReply(FALSE, QuickConfidence, <<"Empty expression">>))
    ELSE IF trim(submitted) = trim(correct)
    THEN Some(OracleReply(TRUE, QuickConfidence, <<"Exact match">>))
    ELSE IF \E i \in 1..Len(synonyms) : trim(submitted) = trim(synonyms[i])
    THEN Some(OracleReply(TRUE, QuickConfidence, <<"Synonym match">>))
    ELSE Undefined

MatchWord == <<"M", "A", "T", "C", "H">>

NoMatchWord == <<"N", "O", "_", "M", "A", "T", "C", "H">>

\* Index of the first character of s at or after i that is not white space.
RECURSIVE SkipSpaces(_, _)
SkipSpaces(s, i) ==
    IF i <= Len(s) /\ IsSpace(s[i]) THEN SkipSpaces(s, i + 1) ELSE i

\* result.replace(/^(MATCH|NO_MATCH)\s*-?\s*/i, '')
StripVerdict(result) ==
    LET up == toUpperCase(result)
        w  == IF OccursAt(up, 1, MatchWord) THEN Len(MatchWord)
              ELSE IF OccursAt(up, 1, NoMatchWord) THEN Len(NoMatchWord)
              ELSE 0
        a  == SkipSpaces(result, w + 1)
        b  == IF a <= Len(result) /\ result[a] = "-" THEN a + 1 ELSE a
        e  == SkipSpaces(result, b)
    IN  IF w = 0 THEN result ELSE SubSeq(result, e, Len(result))

\* A variant of LLMReply that reports the confidence of the fallback.
LLMReplyUnsure(content) ==
    LET result  == IF content = Undefined THEN <<>> ELSE trim(content[1])
        isMatch == OccursAt(toUpperCase(result), 1, MatchWord)
        reason  == IF StripVerdict(result) # <<>> THEN StripVerdict(result)
                   ELSE <<"LLM decision">>
    IN  OracleReply(isMatch, FallbackConfidence, <<"LLM", reason>>)

\* Lines 62-70: the reply built from the completion's content (Undefined when
\* the completion carries none).
LLMReply(content) ==
    LET result  == IF content = Undefined THEN <<>> ELSE trim(content[1])
        isMatch == OccursAt(toUpperCase(result), 1, MatchWord)
        reason  == IF StripVerdict(result) # <<>> THEN StripVerdict(result)
                   ELSE <<"LLM decision">>
    IN  OracleReply(isMatch, LLMConfidence, <<"LLM", reason>>)

\* Lines 72-95: the reply built in the catch block.
FallbackReply(submitted, correct, synonyms) ==
    LET normalizedSubmitted == normalizeSimple(submitted)
        normalizedCorrect   == normalizeSimple(correct)
        normalizedSynonyms  == Map(synonyms, normalizeSimple)
        match == normalizedSubmitted = normalizedCorrect
                 \/ Includes(normalizedSynonyms, normalizedSubmitted)
    IN  OracleReply(match, FallbackConfidence,
                    <<IF match THEN "Fallback normalization match"
                      ELSE "Fallback normalization mismatch">>)

-----------------------------------------------------------------------------
(* gradeWithLLM                                                            *)

PassConfidence == 90

ReviewConfidence == 70

\* Promises: of the oracle's reply, and of gradeWithLLM's GradeResponse.
NoPromise == [state |-> "none"]

Pending == [state |-> "pending"]

Resolved(v) == [state |-> "resolved", value |-> v]

Rejected == [state |-> "rejected"]

\* A variant of Delegates that requires both kinds to differ from algebra.
DelegatesOnBoth(p, c) == p.type # "algebra" /\ c.type # "algebra"

\* Lines 152-154: the call is handed to gradeDeterministic.
Delegates(p, c) == p.type # "algebra" \/ c.type # "algebra"

\* Lines 165-167.
EmptySubmission == GradeResponse("FAIL", 0, <<<<"EMPTY_SUBMISSION">>>>)

\* A variant of Threshold that excludes the boundaries.
ThresholdStrict(reply) ==
    IF reply.match /\ reply.confidence > PassConfidence
    THEN GradeResponse("PASS", ScoreOne,
                       <<<<"ALGEBRA_LLM_MATCH">> \o reply.reason>>)
    ELSE IF reply.match /\ reply.confidence > ReviewConfidence
    THEN GradeResponse("REVIEW", ScoreHalf,
                       <<<<"ALGEBRA_LLM_UNCERTAIN">> \o reply.reason>>)
    ELSE GradeResponse("FAIL", 0,
                       <<<<"ALGEBRA_LLM_MISMATCH">> \o reply.reason>>)

\* A variant of Threshold that gives an uncertain match the full score.
ThresholdReviewFull(reply) ==
    IF reply.match /\ reply.confidence >= PassConfidence
    THEN GradeResponse("PASS", ScoreOne,
                       <<<<"ALGEBRA_LLM_MATCH">> \o reply.reason>>)
    ELSE IF reply.match /\ reply.confidence >= ReviewConfidence
    THEN GradeResponse("REVIEW", ScoreOne,
                       <<<<"ALGEBRA_LLM_UNCERTAIN">> \o reply.reason>>)
    ELSE GradeResponse("FAIL", 0,
                       <<<<"ALGEBRA_LLM_MISMATCH">> \o reply.reason>>)

\* Lines 173-179: the verdict for the oracle's reply.
Threshold(reply) ==
    IF reply.match /\ reply.confidence >= PassConfidence
    THEN GradeResponse("PASS", ScoreOne,
                       <<<<"ALGEBRA_LLM_MATCH">> \o reply.reason>>)
    ELSE IF reply.match /\ reply.confidence >= ReviewConfidence
    THEN GradeResponse("REVIEW", ScoreHalf,
                       <<<<"ALGEBRA_LLM_UNCERTAIN">> \o reply.reason>>)
    ELSE GradeResponse("FAIL", 0,
                       <<<<"ALGEBRA_LLM_MISMATCH">> \o reply.reason>>)

-----------------------------------------------------------------------------
(* The answer classifier of the assignment page (src/unnamed/part_008):    *)
(* getAnswerType, and inferTypeAndCanonical of the authoring handlers.     *)

\* /^[A-D]$/i.test(t)
IsChoiceText(t) ==
    Len(t) = 1 /\ t[1] \in {"A", "B", "C", "D", "a", "b", "c", "d"}

\* Index after the exponent e[-+]?\d+ of t at index i, or 0 when there is none.
ExponentEnd(t, i) ==
    LET s == IF i + 1 <= Len(t) /\ t[i + 1] \in {"+", "-"} THEN 1 ELSE 0
        k == DigitRun(t, i + s + 1)
    IN  IF i <= Len(t) /\ t[i] = "e" /\ k > 0 THEN i + s + 1 + k ELSE 0

\* /^[-+]?((\d+\.?\d*)|(\d*\.?\d+))(e[-+]?\d+)?$/.test(t): digits with at
\* most one dot and at least one digit, then an optional exponent.
IsDecimalText(t) ==
    LET s == IF t # <<>> /\ t[1] \in {"+", "-"} THEN 1 ELSE 0
        a == DigitRun(t, s + 1)
        d == IF s + a + 1 <= Len(t) /\ t[s + a + 1] = "." THEN 1 ELSE 0
        b == DigitRun(t, s + a + d + 1)
        j == s + a + d + b + 1
    IN  /\ a + b > 0
        /\ j = Len(t) + 1 \/ ExponentEnd(t, j) = Len(t) + 1

\* Lines 622 and 646: the test for a number.
IsNumericText(t) == IsFractionText(t) \/ IsDecimalText(t)

\* The single characters of the pattern of lines 629 and 649; its longer
\* alternatives (**, sin, cos, tan, log, ln) each contain one of them.
AlgebraMarks ==
    Lower \cup {Radic, CubeRoot, PiGlyph, InfGlyph,
                "^", "+", "-", "*", "/", "(", ")", "="}

\* Lines 629 and 649: the pattern tested on t.toLowerCase().
IsAlgebraText(t) == \E i \in 1..Len(t) : ToLowerChar(t[i]) \in AlgebraMarks

\* A variant of getAnswerType that tests for an expression first.
getAnswerTypeAlgebraFirst(input) ==
    IF IsAlgebraText(trim(input)) THEN "algebra"
    ELSE IF IsChoiceText(trim(input)) THEN "mc"
    ELSE IF IsNumericText(trim(input)) THEN "numeric"
    ELSE IF Len(trim(input)) > 0 THEN "short"
    ELSE "unknown"

\* Lines 642-654.
getAnswerType(input) ==
    IF IsChoiceText(trim(input)) THEN "mc"
    ELSE IF IsNumericText(trim(input)) THEN "numeric"
    ELSE IF IsAlgebraText(trim(input)) THEN "algebra"
    ELSE IF Len(trim(input)) > 0 THEN "short"
    ELSE "unknown"

\* Lines 631 and 637: the synonyms are stored when there are any.
StoredSynonymList(synonyms) ==
    IF synonyms # Undefined /\ Len(synonyms[1]) > 0 THEN synonyms ELSE Undefined

\* Lines 617-640: the kind and the canonical value stored for an answer.
inferTypeAndCanonical(input, tolerance, units, synonyms) ==
    IF IsChoiceText(trim(input))
    THEN [type |-> "mc", canonical |-> StringValue(toUpperCase(trim(input)))]
    ELSE IF IsNumericText(trim(input))
    THEN [type |-> "numeric",
          canonical |-> CanonicalNumeric(trim(input),
                                         IF Truthy(units) THEN units ELSE Undefined,
                                         tolerance)]
    ELSE IF IsAlgebraText(trim(input))
    THEN [type |-> "algebra",
          canonical |-> CanonicalAlgebra(trim(input), StoredSynonymList(synonyms))]
    ELSE [type |-> "short",
          canonical |-> CanonicalShort(toLowerCase(trim(input)),
                                       StoredSynonymList(synonyms))]

-----------------------------------------------------------------------------
(* The extraction endpoint (src/unnamed/part_003): it asks a vision model  *)
(* for the answer written in an image and answers 'grade' with the         *)
(* extracted payload or 'rewrite'.                                         *)

\* Line 8: the threshold when the environment sets none.
DefaultThreshold == Rat(98, 100)

\* Line 97: Number(data.confidence ?? 0).
ExtractConfidence(data) ==
    IF data.confidence = Undefined THEN Rat(0, 1) ELSE data.confidence[1]

\* Line 98: Boolean(data.abstain).
ExtractAbstain(data) == data.abstain # Undefined /\ data.abstain[1]

\* Line 99: String(data.value ?? '').trim().
ExtractValue(data) == trim(IF data.value = Undefined THEN <<>> ELSE data.value[1])

\* A variant of Rejects that does not look at abstain.
RejectsIgnoringAbstain(data, threshold) ==
    \/ ExtractConfidence(data) \in {NaN, Rat(0, 1)}
    \/ RatLess(ExtractConfidence(data), threshold)
    \/ ExtractValue(data) = <<>>

\* Line 101: abstain || !confidence || confidence < threshold || !value.
Rejects(data, threshold) ==
    \/ ExtractAbstain(data)
    \/ ExtractConfidence(data) \in {NaN, Rat(0, 1)}
    \/ RatLess(ExtractConfidence(data), threshold)
    \/ ExtractValue(data) = <<>>

\* Lines 106-110.
ExtractPayload(data) ==
    [value |-> ExtractValue(data),
     units |-> IF Truthy(data.units) THEN Some(trim(data.units[1])) ELSE Undefined,
     confidence |-> ExtractConfidence(data)]

\* What the endpoint answers: the HTTP code, and the status and payload of
\* the body when it has them.
ExtractResponse(code, status, extracted) ==
    [code |-> code, status |-> status, payload |-> extracted]

Rewrite == ExtractResponse(200, "rewrite", Undefined)

\* Line 86: a missing output_text is read as '{}', an object with no fields.
EmptyObject ==
    [value |-> Undefined, units |-> Undefined, confidence |-> Undefined,
     abstain |-> Undefined]

\* Lines 26-119.  The completion is what the vision request came to: it
\* threw, or its output_text was missing, not JSON, the JSON null, or a JSON
\* object.
visionExtract(method, hasFields, useLLM, threshold, completion) ==
    IF method # "POST" THEN ExtractResponse(405, "none", Undefined)
    ELSE IF ~hasFields THEN ExtractResponse(400, "none", Undefined)
    ELSE IF ~useLLM THEN Rewrite
    ELSE IF completion.kind \in {"throws", "unparsable", "null"} THEN Rewrite
    ELSE LET data == IF completion.kind = "noText" THEN EmptyObject
                     ELSE completion.data
         IN  IF Rejects(data, threshold) THEN Rewrite
             ELSE ExtractResponse(200, "grade", Some(ExtractPayload(data)))

-----------------------------------------------------------------------------
(* The grading endpoint (src/pages/api/grade.ts): it turns the extracted   *)
(* answer of the request into a SubmissionPayload of the canonical's kind  *)
(* and grades it with gradeWithLLM.                                        *)

\* payload.extractedUnits || null; the grader reads null as a missing field
\* (deterministicGrader.ts line 82).
ExtractedUnits(body) ==
    IF Truthy(body.extractedUnits) THEN body.extractedUnits ELSE Undefined

\* A variant of convertToSubmissionPayload that tags the payload with the
\* kind the extracted text looks like.
convertByDetectedType(body, c) ==
    SubmissionPayload(body.source, getAnswerType(body.extractedValue),
        IF c.type = "numeric"
            THEN Some([num |-> body.extractedValue, units |-> ExtractedUnits(body)])
            ELSE Undefined,
        IF c.type = "mc" THEN Some([choice |-> body.extractedValue]) ELSE Undefined,
        IF c.type = "short" THEN Some([text |-> body.extractedValue]) ELSE Undefined,
        IF c.type = "algebra" THEN Some([expression |-> body.extractedValue])
            ELSE Undefined,
        body.confidence)

\* Lines 24-42.
convertToSubmissionPayload(body, c) ==
    SubmissionPayload(body.source, c.type,
        IF c.type = "numeric"
            THEN Some([num |-> body.extractedValue, units |-> ExtractedUnits(body)])
            ELSE Undefined,
        IF c.type = "mc" THEN Some([choice |-> body.extractedValue]) ELSE Undefined,
        IF c.type = "short" THEN Some([text |-> body.extractedValue]) ELSE Undefined,
        IF c.type = "algebra" THEN Some([expression |-> body.extractedValue])
            ELSE Undefined,
        body.confidence)

-----------------------------------------------------------------------------
(* The inputs of a grading call: every text over a small alphabet up to a  *)
(* bounded length, the examples of the specification and of the tests,     *)
(* and the canonical answers they are graded against.                      *)

MaxNumLen == 3

MaxExprLen == 3

NumAlphabet == {"0", "1", ".", "/", "-", " "}

ExprAlphabet == {"x", "2", " ", "U00B2"}

NumExamples ==
    {<<"9", ".", "8">>, <<"9", ".", "8", "1">>, <<"1", "0", ".", "5">>, <<"9", ".", "7">>, <<"4", "2">>, <<"1", "e", "1">>, <<"5", "e", "-", "1">>, <<"+", "3", "/", "4">>, <<"a", "b", "c">>, <<"0", "x", "1", "f">>,
     <<"I", "n", "f", "i", "n", "i", "t", "y">>, <<" ", "4", "2", " ">>}

NumTexts == StringsUpTo(NumAlphabet, MaxNumLen) \cup NumExamples

ExprExamples ==
    {<<"x", "U00B2", " ", "+", " ", "4", "x", " ", "+", " ", "4">>, <<"x", "^", "2", " ", "+", " ", "4", "x", " ", "+", " ", "4">>, <<"2", "x">>, <<"2", "*", "x">>, <<"x", "*", "2">>, <<"U221A", "x">>, <<"s", "q", "r", "t", "(", "x", ")">>, <<"2", "U03C0", "r">>, <<"X", "^", "2">>}

ExprTexts == StringsUpTo(ExprAlphabet, MaxExprLen) \cup ExprExamples

NumericPayload(num, units) ==
    SubmissionPayload("vision", "numeric", Some([num |-> num, units |-> units]),
                      Undefined, Undefined, Undefined, Some(100))

MCPayload(choice) ==
    SubmissionPayload("typed", "mc", Undefined, Some([choice |-> choice]),
                      Undefined, Undefined, Undefined)

ShortPayload(text) ==
    SubmissionPayload("typed", "short", Undefined, Undefined,
                      Some([text |-> text]), Undefined, Undefined)

AlgebraPayload(expression) ==
    SubmissionPayload("vision", "algebra", Undefined, Undefined, Undefined,
                      Some([expression |-> expression]), Some(100))

\* A payload of the kind with its sub-payload missing.
BarePayload(type) ==
    SubmissionPayload("typed", type, Undefined, Undefined, Undefined, Undefined,
                      Undefined)

Tolerances == {Undefined, Some(Rat(0, 1)), Some(Rat(5, 100)), Some(Rat(2, 10))}

NumericCanonicals ==
    {Canonical("numeric", StringValue(v)) : v \in {<<"4", "2">>, <<"0">>, <<"x">>}}
    \cup {Canonical("numeric", CanonicalNumeric(<<"9", ".", "8", "1">>, Undefined, tol)) :
              tol \in Tolerances}
    \cup {Canonical("numeric", CanonicalNumeric(<<"0", ".", "1">>, Undefined, tol)) :
              tol \in {Undefined, Some(Rat(0, 1))}}
    \cup {Canonical("numeric", CanonicalNumeric(<<"1", "/", "2">>, Undefined, Undefined)),
          Canonical("numeric", CanonicalNumeric(<<"-", "1">>, Undefined, Undefined))}

UnitTexts == {Undefined, Some(<<>>), Some(<<"m">>), Some(<<"s">>)}

NumericInputs ==
    {<<NumericPayload(s, Undefined), c>> : s \in NumTexts, c \in NumericCanonicals}
    \cup {<<NumericPayload(s, su),
            Canonical("numeric", CanonicalNumeric(<<"9", ".", "8", "1">>, cu, Undefined))>> :
              s \in {<<"9", ".", "8">>, <<"1", "0", ".", "5">>, <<"x">>}, su \in UnitTexts, cu \in UnitTexts}
    \cup {<<BarePayload("numeric"), c>> : c \in NumericCanonicals}

MCInputs ==
    {<<p, Canonical("mc", StringValue(v))>> :
        p \in {MCPayload(s) : s \in {<<"A">>, <<"B">>, <<"b">>, <<" ", "B", " ">>, <<>>, <<"A", "B">>}}
              \cup {BarePayload("mc")},
        v \in {<<"B">>, <<" ", "B">>, <<"a">>, <<>>}}

ShortCanonicals ==
    {Canonical("short", StringValue(<<"P", "a", "r", "i", "s">>)),
     Canonical("short", CanonicalShort(<<" ", "P", "a", "r", "i", "s", " ">>, Undefined)),
     Canonical("short", CanonicalShort(<<"p", "a", "r", "i", "s">>,
                                       Some(<<<<"l", "u", "t", "e", "c", "e">>, <<"P", "a", "n", "a", "m", "e">>, <<" ", "p", "a", "n", "a", "m", " ">>>>))),
     Canonical("short", CanonicalShort(<<>>, Some(<<<<>>>>)))}

ShortInputs ==
    {<<p, c>> :
        p \in {ShortPayload(s) :
                 s \in {<<"P", "a", "r", "i", "s">>, <<" ", "P", "A", "R", "I", "S", " ">>, <<"r", "o", "m", "e">>, <<"L", "U", "T", "E", "C", "E">>, <<"P", "a", "n", "a", "m", "e">>, <<"p", "a", "n", "a", "m", "e">>, <<" ", "p", "a", "n", "a", "m", " ">>, <<>>}}
              \cup {BarePayload("short")},
        c \in ShortCanonicals}

AlgebraCanonicals ==
    {Canonical("algebra", StringValue(<<"x", "^", "2">>)),
     Canonical("algebra", StringValue(<<"x", "^", "2", " ", "+", " ", "4", "x", " ", "+", " ", "4">>)),
     Canonical("algebra", CanonicalAlgebra(<<" ", "x", "^", "2", " ">>, Undefined)),
     Canonical("algebra", CanonicalAlgebra(<<"2", "*", "x">>,
                                           Some(<<<<" ", "x", "2", " ">>, <<"x", " ", "+", " ", "x">>>>))),
     Canonical("algebra", CanonicalAlgebra(<<>>, Some(<<<<"x">>>>))),
     Canonical("algebra", CanonicalAlgebra(<<"s", "q", "r", "t", "(", "x", ")">>, Some(<<>>)))}

AlgebraInputs ==
    {<<p, c>> :
        p \in {AlgebraPayload(s) : s \in ExprTexts} \cup {BarePayload("algebra")},
        c \in AlgebraCanonicals}

\* Payloads and canonicals whose kinds differ are drawn from these.
SomePayloads ==
    {NumericPayload(<<"4", "2">>, Undefined), NumericPayload(<<"x">>, Some(<<"m">>)),
     MCPayload(<<"B">>), MCPayload(<<>>),
     ShortPayload(<<"P", "a", "r", "i", "s">>), ShortPayload(<<"4", "2">>),
     AlgebraPayload(<<"x", "^", "2">>), AlgebraPayload(<<>>), AlgebraPayload(<<"4", "2">>)}
    \cup {BarePayload(k) : k \in Kinds}

SomeCanonicals ==
    {Canonical("numeric", StringValue(<<"4", "2">>)),
     Canonical("numeric", CanonicalNumeric(<<"9", ".", "8", "1">>, Some(<<"m">>), Some(Rat(5, 100)))),
     Canonical("mc", StringValue(<<"B">>)),
     Canonical("short", StringValue(<<"4", "2">>)),
     Canonical("short", CanonicalShort(<<"p", "a", "r", "i", "s">>, Some(<<<<"x", "^", "2">>>>))),
     Canonical("algebra", StringValue(<<"x", "^", "2">>)),
     Canonical("algebra", CanonicalAlgebra(<<"4", "2">>, Some(<<<<"B">>>>)))}

MismatchInputs ==
    {<<p, c>> \in SomePayloads \X SomeCanonicals : p.type # c.type}

\* The payloads and canonicals of the requests to the grading endpoint.
GradeBodies ==
    [source : {"vision", "typed"},
     extractedValue : {<<>>, <<"4", "2">>, <<"B">>, <<"x", "^", "2">>,
                       <<"x", "U00B2">>, <<"2", "x">>},
     extractedUnits : {Undefined, Some(<<>>), Some(<<"m">>)},
     confidence : {Undefined, Some(100)}]

GradeCanonicals == SomeCanonicals

\* What the grading endpoint hands to gradeWithLLM.
HandlerInputs ==
    {<<convertToSubmissionPayload(body, c), c>> :
        body \in GradeBodies, c \in GradeCanonicals}

Inputs == NumericInputs \cup MCInputs \cup ShortInputs \cup AlgebraInputs
          \cup MismatchInputs \cup HandlerInputs

\* gradeDeterministic on the inputs, evaluated once for all of them: the
\* pairs of an input and its GradeResponse.
DeterministicGrades == {<<in, gradeDeterministic(in[1], in[2])>> : in \in Inputs}

\* A variant of OnOracleRejected that reports a mismatch.
OnOracleRejectedAsMismatch(p, c) ==
    Resolved(GradeResponse("FAIL", 0, <<<<"ALGEBRA_LLM_MISMATCH">>>>))

\* A variant of OnOracleRejected without the catch block.
OnOracleRejectedRethrows(p, c) == Rejected

\* Lines 180-184: the catch block of gradeWithLLM returns
\* gradeDeterministic(payload, canonical).
OnOracleRejected(p, c) ==
    Resolved((CHOOSE g \in DeterministicGrades : g[1] = <<p, c>>)[2])

\* Lines 169-184: what gradeWithLLM does when its await of the oracle ends.
AfterAwait(p, c, promise) ==
    IF promise.state = "resolved" THEN Resolved(Threshold(promise.value))
    ELSE OnOracleRejected(p, c)

-----------------------------------------------------------------------------
(* One grading invocation at a time: a caller calls gradeDeterministic     *)
(* (which returns at once) or gradeWithLLM (which may suspend at its await *)
(* of the oracle), and takes the result.  matchAlgebraExpressions is bound *)
(* either to the shipped module or, as in a test, to a scripted stand-in.  *)
(* The text functions (getAnswerType, inferTypeAndCanonical,               *)
(* normalizeAlgebraExpression) are called the same way and return at once. *)

OracleImpls == {"shipped", "stub"}

\* What a scripted oracle may reply.
StubConfidences == {69, 70, 89, 90}

\* What the completion may carry as content.
LLMContents ==
    {Undefined, Some(<<"M", "a", "t", "c", "h", " ", "-", " ", "s", "a", "m", "e">>), Some(<<"N", "O", "_", "M", "A", "T", "C", "H", " ", "-", " ", "d", "i", "f", "f", "e", "r">>),
     Some(<<" ", "y", "e", "s">>)}

NoInput == [type |-> "none"]

\* The answers an author may type: every text over a small alphabet up to a
\* bounded length, and the examples of the specification and of the tests.
MaxTextLen == 3

AnswerAlphabet == {"B", "b", "x", "1", "0", ".", "/", "-", " ", "?"}

AnswerExamples ==
    {<<"A">>, <<"4", "2">>, <<"3", ".", "1", "4">>, <<"1", "e", "5">>, <<"1", "E", "5">>,
     <<"2", "e", "-", "3">>, <<"+", "3", "/", "4">>, <<"1", "2", "/", "0">>,
     <<"v", "e", "r", "t", "e", "x">>, <<"s", "u", "m", "m", "i", "t">>,
     <<"s", "i", "n", "(", "x", ")">>, <<"x", "^", "2", " ", "+", " ", "4">>,
     <<"x", "U00B2">>, <<"U221A", "2">>, <<"U03C0">>, <<"P", "A", "R", "I", "S">>,
     <<" ", "4", "2", " ">>, <<"4", "2", "?">>, <<"?", "!">>}

AnswerTexts == StringsUpTo(AnswerAlphabet, MaxTextLen) \cup AnswerExamples

\* The texts handed to parseNumber.
ParseTexts ==
    NumTexts \cup {<<"3", "/", "4">>, <<"-", "3", "/", "4">>, <<"1", "/", "2">>,
                   <<"1", "2", "/", "0", "0">>, <<" ", "6", "/", "4", " ">>,
                   <<"i", "n", "v", "a", "l", "i", "d">>, <<"3", ".", "1", "4">>}

\* What the vision model may put in its JSON reply, and what the request to
\* it may come to.
ExtractData ==
    [value : {Undefined, Some(<<>>), Some(<<" ", " ">>), Some(<<" ", "4", "2", " ">>),
              Some(<<"x", "U00B2">>)},
     units : {Undefined, Some(<<>>), Some(<<" ", "m">>)},
     confidence : {Undefined, Some(NaN), Some(Rat(0, 1)), Some(Rat(97, 100)),
                   Some(Rat(98, 100)), Some(Rat(1, 1))},
     abstain : {Undefined, Some(TRUE), Some(FALSE)}]

Completions ==
    {[kind |-> k] : k \in {"throws", "noText", "unparsable", "null"}}
        \cup {[kind |-> "object", data |-> d] : d \in ExtractData}

Thresholds == {DefaultThreshold, Rat(1, 2)}

\* The expressions handed to the normalizer.
RadicalAlphabet == {"U221A", "U00B2", "U00B9", "2", "("}

NormalizerTexts ==
    ExprTexts \cup StringsUpTo(RadicalAlphabet, MaxExprLen)
        \cup {<<"x", "y", "z">>, <<"p", "i">>, <<"U03C0">>, <<"2", "p", "i">>,
              <<"a", "b">>, <<"s", "i", "n", "(", "x", ")">>,
              <<"U221A", "(", "x", "U00B2", ")">>, <<"U221A", "(", "U00B2", ")">>}

\* The tolerance, units and synonyms the authoring handlers pass along.
AnswerOptions ==
    {<<Undefined, Undefined, Some(<<>>)>>,
     <<Some(Rat(5, 100)), Some(<<"m">>), Some(<<<<"p", "e", "a", "k">>>>)>>,
     <<Some(Rat(0, 1)), Undefined, Undefined>>}

\* The gradeWithLLM invocations that may be in flight together, and one that
\* has not been called.
NCalls == 2

Calls == 1..NCalls

IdleCall ==
    [pc |-> "idle", payload |-> NoInput, canonical |-> NoInput,
     impl |-> "none", oracle |-> NoPromise, outcome |-> NoPromise]

Init ==
    /\ pc = "idle"
    /\ entry = "none"
    /\ payload = NoInput
    /\ canonical = NoInput
    /\ oracleImpl = "none"
    /\ oracle = NoPromise
    /\ oracleCalls = 0
    /\ request = "none"
    /\ requests = 0
    /\ outcome = NoPromise
    /\ argument = NoInput
    /\ calls = [i \in Calls |-> IdleCall]

\* gradeDeterministic(p, c) is called and returns.
CallGradeDeterministic ==
    /\ UNCHANGED calls
    /\ pc = "idle"
    /\ \E in \in Inputs :
          /\ payload' = in[1]
          /\ canonical' = in[2]
          /\ outcome' = Resolved(gradeDeterministic(in[1], in[2]))
    /\ pc' = "done"
    /\ entry' = "gradeDeterministic"
    /\ UNCHANGED <<oracleImpl, oracle, oracleCalls, request, requests, argument>>

\* matchAlgebraExpressions(submitted, correct, synonyms) is called and runs to
\* its first await.  The shipped module replies at once (lines 10-23) or
\* enters its try block, where either the client cannot be set up
\* (clientThrows: the catch block replies) or the request is sent.  A
\* scripted oracle returns a pending promise.
InvokeOracle(impl, submitted, correct, synonyms, clientThrows) ==
    LET quick == QuickReply(submitted, correct, synonyms)
    IN  /\ oracleImpl' = impl
        /\ oracleCalls' = oracleCalls + 1
        /\ IF impl = "stub"
           THEN /\ oracle' = Pending
                /\ pc' = "awaitOracle"
                /\ UNCHANGED <<request, requests>>
           ELSE IF quick # Undefined
           THEN /\ oracle' = Resolved(quick[1])
                /\ pc' = "awaitOracle"
                /\ UNCHANGED <<request, requests>>
           ELSE IF clientThrows
           THEN /\ oracle' = Resolved(FallbackReply(submitted, correct, synonyms))
                /\ pc' = "awaitOracle"
                /\ UNCHANGED <<request, requests>>
           ELSE /\ oracle' = Pending
                /\ pc' = "awaitRequest"
                /\ request' = "inflight"
                /\ requests' = requests + 1

\* gradeWithLLM(p, c) is called and runs to its first await or to its return
\* (lines 147-170).  impl is the module bound to matchAlgebraExpressions.
CallGradeWithLLM ==
    /\ UNCHANGED calls
    /\ pc = "idle"
    /\ entry' = "gradeWithLLM"
    /\ UNCHANGED argument
    /\ \E in \in Inputs :
          LET p == in[1]
              c == in[2]
          IN  /\ payload' = p
              /\ canonical' = c
              /\ IF Delegates(p, c)
                 THEN /\ outcome' = Resolved(gradeDeterministic(p, c))
                      /\ pc' = "done"
                      /\ UNCHANGED <<oracleImpl, oracle, oracleCalls, request,
                                     requests>>
                 ELSE IF AlgebraSubmitted(p) = <<>>
                 THEN /\ outcome' = Resolved(EmptySubmission)
                      /\ pc' = "done"
                      /\ UNCHANGED <<oracleImpl, oracle, oracleCalls, request,
                                     requests>>
                 ELSE /\ outcome' = Pending
                      /\ \E impl \in OracleImpls, clientThrows \in BOOLEAN :
                            InvokeOracle(impl, AlgebraSubmitted(p), AlgebraCorrect(c),
                                         AlgebraSynonyms(c), clientThrows)

\* The external request completes: lines 62-70 build the oracle's reply.
RequestReplies ==
    /\ UNCHANGED calls
    /\ pc = "awaitRequest"
    /\ \E content \in LLMContents : oracle' = Resolved(LLMReply(content))
    /\ request' = "replied"
    /\ pc' = "awaitOracle"
    /\ UNCHANGED <<entry, payload, canonical, oracleImpl, oracleCalls, requests,
                   outcome, argument>>

\* A variant of RequestFails that sends the request a second time before
\* giving up.
RequestFailsRetries ==
    /\ UNCHANGED calls
    /\ pc = "awaitRequest"
    /\ IF requests < 2
       THEN /\ requests' = requests + 1
            /\ UNCHANGED <<pc, oracle, request>>
       ELSE /\ oracle' = Resolved(FallbackReply(AlgebraSubmitted(payload),
                                                AlgebraCorrect(canonical),
                                                AlgebraSynonyms(canonical)))
            /\ request' = "failed"
            /\ pc' = "awaitOracle"
            /\ UNCHANGED requests
    /\ UNCHANGED <<entry, payload, canonical, oracleImpl, oracleCalls, outcome,
                   argument>>

\* The external request fails: the oracle's catch block builds the reply.
RequestFails ==
    /\ UNCHANGED calls
    /\ pc = "awaitRequest"
    /\ oracle' = Resolved(FallbackReply(AlgebraSubmitted(payload),
                                        AlgebraCorrect(canonical),
                                        AlgebraSynonyms(canonical)))
    /\ request' = "failed"
    /\ pc' = "awaitOracle"
    /\ UNCHANGED <<entry, payload, canonical, oracleImpl, oracleCalls, requests,
                   outcome, argument>>

\* A scripted oracle resolves with a reply of the interface's shape.
StubResolves ==
    /\ UNCHANGED calls
    /\ pc = "awaitOracle"
    /\ oracleImpl = "stub"
    /\ oracle = Pending
    /\ \E match \in BOOLEAN, confidence \in StubConfidences :
          oracle' = Resolved(OracleReply(match, confidence, <<"scripted">>))
    /\ UNCHANGED <<pc, entry, payload, canonical, oracleImpl, oracleCalls,
                   request, requests, outcome, argument>>

\* A scripted oracle throws or rejects.
StubRejects ==
    /\ UNCHANGED calls
    /\ pc = "awaitOracle"
    /\ oracleImpl = "stub"
    /\ oracle = Pending
    /\ oracle' = Rejected
    /\ UNCHANGED <<pc, entry, payload, canonical, oracleImpl, oracleCalls,
                   request, requests, outcome, argument>>

\* gradeWithLLM resumes after its await: lines 170-184.
Resume ==
    /\ UNCHANGED calls
    /\ pc = "awaitOracle"
    /\ oracle.state \in {"resolved", "rejected"}
    /\ outcome' = AfterAwait(payload, canonical, oracle)
    /\ pc' = "done"
    /\ UNCHANGED <<entry, payload, canonical, oracleImpl, oracle, oracleCalls,
                   request, requests, argument>>

\* The caller takes the result; nothing of the call is kept.
Return ==
    /\ UNCHANGED calls
    /\ pc = "done"
    /\ pc' = "idle"
    /\ entry' = "none"
    /\ payload' = NoInput
    /\ canonical' = NoInput
    /\ oracle' = NoPromise
    /\ oracleCalls' = 0
    /\ request' = "none"
    /\ requests' = 0
    /\ outcome' = NoPromise
    /\ oracleImpl' = "none"
    /\ argument' = NoInput

\* getAnswerType(input) is called by the preview and returns; the kind it
\* returns is kept in the field type of the outcome.
CallGetAnswerType ==
    /\ UNCHANGED calls
    /\ pc = "idle"
    /\ \E text \in AnswerTexts :
          /\ argument' = [text |-> text]
          /\ outcome' = Resolved([type |-> getAnswerType(text)])
    /\ pc' = "done"
    /\ entry' = "getAnswerType"
    /\ UNCHANGED <<payload, canonical, oracleImpl, oracle, oracleCalls, request,
                   requests>>

\* inferTypeAndCanonical(input, tolerance, units, synonyms) is called and
\* returns.  The function takes any text; its callers addProblem (line 744)
\* and saveEditProblem (line 869) pass only answers that are not blank.
CallInferTypeAndCanonical ==
    /\ UNCHANGED calls
    /\ pc = "idle"
    /\ \E text \in AnswerTexts, options \in AnswerOptions :
          /\ argument' = [text |-> text, tolerance |-> options[1],
                       units |-> options[2], synonyms |-> options[3]]
          /\ outcome' = Resolved(inferTypeAndCanonical(text, options[1],
                                                       options[2], options[3]))
    /\ pc' = "done"
    /\ entry' = "inferTypeAndCanonical"
    /\ UNCHANGED <<payload, canonical, oracleImpl, oracle, oracleCalls, request,
                   requests>>

\* normalizeAlgebraExpression(expr) is called and returns; the text it
\* returns is kept in the field expression of the outcome.
CallNormalizeAlgebraExpression ==
    /\ UNCHANGED calls
    /\ pc = "idle"
    /\ \E text \in NormalizerTexts :
          /\ argument' = [text |-> text]
          /\ outcome' = Resolved([expression |-> normalizeAlgebraExpression(text)])
    /\ pc' = "done"
    /\ entry' = "normalizeAlgebraExpression"
    /\ UNCHANGED <<payload, canonical, oracleImpl, oracle, oracleCalls, request,
                   requests>>

\* parseNumber(input) is called and returns; the number (or null) it returns
\* is kept in the field number of the outcome.
CallParseNumber ==
    /\ UNCHANGED calls
    /\ pc = "idle"
    /\ \E text \in ParseTexts :
          /\ argument' = [text |-> text]
          /\ outcome' = Resolved([number |-> parseNumber(text)])
    /\ pc' = "done"
    /\ entry' = "parseNumber"
    /\ UNCHANGED <<payload, canonical, oracleImpl, oracle, oracleCalls, request,
                   requests>>

\* The extraction endpoint handles a request and answers it.
CallVisionExtract ==
    /\ UNCHANGED calls
    /\ pc = "idle"
    /\ \E method \in {"POST", "GET"}, hasFields \in BOOLEAN, useLLM \in BOOLEAN,
          threshold \in Thresholds, completion \in Completions :
          /\ argument' = [method |-> method, hasFields |-> hasFields,
                          useLLM |-> useLLM, threshold |-> threshold,
                          completion |-> completion]
          /\ outcome' = Resolved(visionExtract(method, hasFields, useLLM,
                                               threshold, completion))
    /\ pc' = "done"
    /\ entry' = "visionExtract"
    /\ UNCHANGED <<payload, canonical, oracleImpl, oracle, oracleCalls, request,
                   requests>>

\* The grading endpoint handles a request (grade.ts lines 17-45): it refuses
\* it (405, 400) or builds the payload and calls gradeWithLLM, whose result
\* it answers with.  Saving the result (lines 47-75) is best-effort and
\* changes nothing of the answer.
CallGradeHandler ==
    /\ UNCHANGED calls
    /\ pc = "idle"
    /\ entry' = "gradeHandler"
    /\ \E method \in {"POST", "GET"}, hasFields \in BOOLEAN,
          body \in GradeBodies, c \in GradeCanonicals :
          LET p == convertToSubmissionPayload(body, c)
          IN  /\ argument' = [method |-> method, hasFields |-> hasFields,
                              body |-> body]
              /\ IF method # "POST" \/ ~hasFields
                 THEN /\ outcome' = Resolved([code |-> IF method # "POST" THEN 405
                                                       ELSE 400])
                      /\ pc' = "done"
                      /\ UNCHANGED <<payload, canonical, oracleImpl, oracle,
                                     oracleCalls, request, requests>>
                 ELSE /\ payload' = p
                      /\ canonical' = c
                      /\ IF Delegates(p, c)
                         THEN /\ outcome' = Resolved(gradeDeterministic(p, c))
                              /\ pc' = "done"
                              /\ UNCHANGED <<oracleImpl, oracle, oracleCalls,
                                             request, requests>>
                         ELSE IF AlgebraSubmitted(p) = <<>>
                         THEN /\ outcome' = Resolved(EmptySubmission)
                              /\ pc' = "done"
                              /\ UNCHANGED <<oracleImpl, oracle, oracleCalls,
                                             request, requests>>
                         ELSE /\ outcome' = Pending
                              /\ \E impl \in OracleImpls, clientThrows \in BOOLEAN :
                                    InvokeOracle(impl, AlgebraSubmitted(p),
                                                 AlgebraCorrect(c),
                                                 AlgebraSynonyms(c), clientThrows)

Next ==
    \/ CallGradeDeterministic
    \/ CallGradeWithLLM
    \/ RequestReplies
    \/ RequestFails
    \/ StubResolves
    \/ StubRejects
    \/ Resume
    \/ Return
    \/ CallGetAnswerType
    \/ CallInferTypeAndCanonical
    \/ CallNormalizeAlgebraExpression
    \/ CallParseNumber
    \/ CallVisionExtract
    \/ CallGradeHandler

Spec == Init /\ [][Next]_vars

\* The event loop runs a continuation whose promise has settled, and the
\* external request (or the scripted oracle) eventually replies or fails.
FairSpec ==
    /\ Spec
    /\ WF_vars(Resume)
    /\ WF_vars(RequestReplies \/ RequestFails)
    /\ WF_vars(StubResolves \/ StubRejects)

-----------------------------------------------------------------------------
(* Several gradeWithLLM invocations in flight together.  JavaScript runs   *)
(* one continuation at a time, so the invocations interleave at their      *)
(* awaits only.  Everything an invocation reads or writes is an argument   *)
(* or a local binding of its own activation (reasons, line 71; the client  *)
(* of part_012 line 26): the modules keep no mutable binding at module     *)
(* scope, and so there is no state here besides the invocations' own.      *)

\* What the concurrent invocations grade, and how their oracles may settle.
ConcInputs ==
    {<<AlgebraPayload(<<"2", "x">>), Canonical("algebra", StringValue(<<"x", "^", "2">>))>>,
     <<AlgebraPayload(<<"x", "U00B2">>), Canonical("algebra", StringValue(<<"x", "^", "2">>))>>,
     <<MCPayload(<<"B">>), Canonical("mc", StringValue(<<"B">>))>>}

ConcContents ==
    {Some(<<"M", "a", "t", "c", "h", " ", "-", " ", "s", "a", "m", "e">>),
     Some(<<"N", "O", "_", "M", "A", "T", "C", "H", " ", "-", " ", "d", "i", "f", "f", "e", "r">>)}

ConcReplies ==
    {OracleReply(TRUE, 90, <<"scripted">>), OracleReply(TRUE, 70, <<"scripted">>)}

ConcInit ==
    /\ Init
    /\ calls = [i \in Calls |-> IdleCall]

\* Invocation i is called and runs to its first await or to its return
\* (lines 147-170, and part_012 lines 10-32).
ConcCall(i) ==
    /\ calls[i].pc = "idle"
    /\ \E in \in ConcInputs, impl \in OracleImpls, clientThrows \in BOOLEAN :
          calls' = [calls EXCEPT ![i] =
              IF Delegates(in[1], in[2])
              THEN [pc |-> "done", payload |-> in[1], canonical |-> in[2],
                    impl |-> "none", oracle |-> NoPromise,
                    outcome |-> Resolved(gradeDeterministic(in[1], in[2]))]
              ELSE IF AlgebraSubmitted(in[1]) = <<>>
              THEN [pc |-> "done", payload |-> in[1], canonical |-> in[2],
                    impl |-> "none", oracle |-> NoPromise,
                    outcome |-> Resolved(EmptySubmission)]
              ELSE IF impl = "stub"
              THEN [pc |-> "awaitOracle", payload |-> in[1], canonical |-> in[2],
                    impl |-> impl, oracle |-> Pending, outcome |-> Pending]
              ELSE IF QuickReply(AlgebraSubmitted(in[1]), AlgebraCorrect(in[2]),
                                 AlgebraSynonyms(in[2])) # Undefined
              THEN [pc |-> "awaitOracle", payload |-> in[1], canonical |-> in[2],
                    impl |-> impl,
                    oracle |-> Resolved(QuickReply(AlgebraSubmitted(in[1]),
                                                   AlgebraCorrect(in[2]),
                                                   AlgebraSynonyms(in[2]))[1]),
                    outcome |-> Pending]
              ELSE IF clientThrows
              THEN [pc |-> "awaitOracle", payload |-> in[1], canonical |-> in[2],
                    impl |-> impl,
                    oracle |-> Resolved(FallbackReply(AlgebraSubmitted(in[1]),
                                                      AlgebraCorrect(in[2]),
                                                      AlgebraSynonyms(in[2]))),
                    outcome |-> Pending]
              ELSE [pc |-> "awaitRequest", payload |-> in[1], canonical |-> in[2],
                    impl |-> impl, oracle |-> Pending, outcome |-> Pending]]
    /\ UNCHANGED <<pc, entry, payload, canonical, oracleImpl, oracle, oracleCalls,
                   request, requests, outcome, argument>>

\* The external request of invocation i replies or fails (part_012 lines
\* 62-95).
ConcRequestSettles(i) ==
    /\ calls[i].pc = "awaitRequest"
    /\ \/ \E content \in ConcContents :
             calls' = [calls EXCEPT ![i].oracle = Resolved(LLMReply(content)),
                                    ![i].pc = "awaitOracle"]
       \/ calls' = [calls EXCEPT
                       ![i].oracle =
                           Resolved(FallbackReply(AlgebraSubmitted(calls[i].payload),
                                                  AlgebraCorrect(calls[i].canonical),
                                                  AlgebraSynonyms(calls[i].canonical))),
                       ![i].pc = "awaitOracle"]
    /\ UNCHANGED <<pc, entry, payload, canonical, oracleImpl, oracle, oracleCalls,
                   request, requests, outcome, argument>>

\* The scripted oracle of invocation i resolves or rejects.
ConcStubSettles(i) ==
    /\ calls[i].pc = "awaitOracle"
    /\ calls[i].impl = "stub"
    /\ calls[i].oracle = Pending
    /\ \/ \E reply \in ConcReplies :
             calls' = [calls EXCEPT ![i].oracle = Resolved(reply)]
       \/ calls' = [calls EXCEPT ![i].oracle = Rejected]
    /\ UNCHANGED <<pc, entry, payload, canonical, oracleImpl, oracle, oracleCalls,
                   request, requests, outcome, argument>>

\* A variant of ConcResume that reads the reply another invocation's oracle
\* settled with, as if the reply were kept in one binding at module scope.
ConcResumeShared(i) ==
    /\ calls[i].pc = "awaitOracle"
    /\ calls[i].oracle.state \in {"resolved", "rejected"}
    /\ \E j \in Calls :
          /\ calls[j].oracle.state \in {"resolved", "rejected"}
          /\ calls' = [calls EXCEPT
                          ![i].outcome = AfterAwait(calls[i].payload,
                                                    calls[i].canonical,
                                                    calls[j].oracle),
                          ![i].pc = "done"]
    /\ UNCHANGED <<pc, entry, payload, canonical, oracleImpl, oracle, oracleCalls,
                   request, requests, outcome, argument>>

\* Invocation i resumes after its await: lines 170-184.
ConcResume(i) ==
    /\ calls[i].pc = "awaitOracle"
    /\ calls[i].oracle.state \in {"resolved", "rejected"}
    /\ calls' = [calls EXCEPT
                    ![i].outcome = AfterAwait(calls[i].payload, calls[i].canonical,
                                              calls[i].oracle),
                    ![i].pc = "done"]
    /\ UNCHANGED <<pc, entry, payload, canonical, oracleImpl, oracle, oracleCalls,
                   request, requests, outcome, argument>>

\* The caller of invocation i takes the result.
ConcReturn(i) ==
    /\ calls[i].pc = "done"
    /\ calls' = [calls EXCEPT ![i] = IdleCall]
    /\ UNCHANGED <<pc, entry, payload, canonical, oracleImpl, oracle, oracleCalls,
                   request, requests, outcome, argument>>

ConcNext ==
    \E i \in Calls :
        \/ ConcCall(i)
        \/ ConcRequestSettles(i)
        \/ ConcStubSettles(i)
        \/ ConcResume(i)
        \/ ConcReturn(i)

ConcSpec == ConcInit /\ [][ConcNext]_vars

-----------------------------------------------------------------------------
(* Properties of the graders.                                              *)

\* A call of either grader is in progress or has returned.
Grading == entry \in {"gradeDeterministic", "gradeWithLLM"}

BothNumeric == Grading /\ payload.type = "numeric" /\ canonical.type = "numeric"

BothAlgebra == Grading /\ payload.type = "algebra" /\ canonical.type = "algebra"

\* C1: when the kinds of the submission and of the canonical answer differ,
\* gradeDeterministic and gradeWithLLM both return exactly
\* {REVIEW, 0, [TYPE_MISMATCH]}, whatever the contents, and the oracle is
\* not invoked.
KindMismatchIsReview ==
    (Grading /\ payload.type # canonical.type)
        => /\ pc = "done"
           /\ outcome = [state |-> "resolved",
                         value |-> [result |-> "REVIEW", score |-> 0,
                                    reasons |-> <<<<"TYPE_MISMATCH">>>>]]
           /\ oracleCalls = 0
           /\ requests = 0
           /\ oracle = NoPromise

\* An algebra submission graded by gradeWithLLM against a numeric canonical.
KindMismatchGraded ==
    /\ pc = "done"
    /\ entry = "gradeWithLLM"
    /\ payload.type = "algebra"
    /\ canonical.type = "numeric"
    /\ outcome.value.result = "REVIEW"

\* The numbers of a numeric grading, as parseNumber reads them.
SubmittedNumber ==
    parseNumber(IF payload.numeric = Undefined THEN <<>>
                ELSE payload.numeric[1].num)

CanonicalNumber ==
    parseNumber(IF canonical.value.isString THEN canonical.value.str
                ELSE canonical.value.num)

\* |s - c| <= tol over the integers, for rationals s and c: with an explicit
\* tolerance t, |s - c| <= t; without one, |s - c| <= |c| / 200, or |c| < 1
\* and |s - c| <= 1 / 100.
DiffNumerator(s, c) == Abs(s.n * c.d - c.n * s.d)

WithinStatedTolerance(s, c, tolerance) ==
    IF tolerance # Undefined
    THEN DiffNumerator(s, c) * tolerance[1].d <= tolerance[1].n * s.d * c.d
    ELSE \/ 200 * DiffNumerator(s, c) <= Abs(c.n) * s.d
         \/ Abs(c.n) < c.d /\ 100 * DiffNumerator(s, c) <= s.d * c.d

\* gradeDeterministic has graded the text sub against the numeric canonical c.
NumericCase(sub, c) ==
    /\ pc = "done"
    /\ entry = "gradeDeterministic"
    /\ payload = NumericPayload(sub, Undefined)
    /\ canonical = Canonical("numeric", c)

\* C2: for a numeric submission and canonical that both parse,
\* gradeDeterministic returns PASS iff |submitted - canonical| <= tol and FAIL
\* otherwise, where tol is the explicit tolerance when one is set (0 included)
\* and otherwise max(0.5% of |canonical|, 0.01 if |canonical| < 1 else 0).
\* 9.8 passes against 9.81, 10.5 fails against 9.81 +- 0.05, 42 passes
\* against 42.
NumericToleranceVerdict ==
    /\ (/\ pc = "done"
        /\ entry = "gradeDeterministic"
        /\ BothNumeric
        /\ SubmittedNumber # Null
        /\ CanonicalNumber # Null)
           => /\ outcome.state = "resolved"
              /\ outcome.value.result =
                    IF WithinStatedTolerance(
                           SubmittedNumber, CanonicalNumber,
                           IF canonical.value.isString THEN Undefined
                           ELSE canonical.value.tolerance)
                    THEN "PASS" ELSE "FAIL"
    /\ NumericCase(<<"9", ".", "8">>,
                   CanonicalNumeric(<<"9", ".", "8", "1">>, Undefined, Undefined))
           => outcome.value.result = "PASS"
    /\ NumericCase(<<"1", "0", ".", "5">>,
                   CanonicalNumeric(<<"9", ".", "8", "1">>, Undefined,
                                    Some([n |-> 1, d |-> 20])))
           => outcome.value.result = "FAIL"
    /\ NumericCase(<<"4", "2">>, StringValue(<<"4", "2">>))
           => outcome.value.result = "PASS"

\* 10.5 graded against 9.81 with tolerance 0.05.
NumericOutsideTolerance ==
    /\ NumericCase(<<"1", "0", ".", "5">>,
                   CanonicalNumeric(<<"9", ".", "8", "1">>, Undefined,
                                    Some([n |-> 1, d |-> 20])))
    /\ outcome.value.result = "FAIL"

\* Texts that are no finite number.
UnparseableTexts ==
    {<<"a", "b", "c">>, <<"x">>, <<"1", "/", "0">>, <<"1", "/">>, <<"/">>,
     <<"-">>, <<".">>, <<"1", " ", "1">>, <<"1", ".", ".">>,
     <<"I", "n", "f", "i", "n", "i", "t", "y">>}

\* C3: in numeric grading, when the submitted text or the canonical value
\* fails to parse as a number, gradeDeterministic returns
\* {REVIEW, 0, [NUM_PARSE_FAIL]}: never PASS or FAIL, and no exception.
NumericParseFailureIsReview ==
    (/\ pc = "done"
     /\ BothNumeric
     /\ \/ SubmittedNumber = Null
        \/ CanonicalNumber = Null
        \/ /\ payload.numeric # Undefined
           /\ payload.numeric[1].num \in UnparseableTexts)
        => outcome = [state |-> "resolved",
                      value |-> [result |-> "REVIEW", score |-> 0,
                                 reasons |-> <<<<"NUM_PARSE_FAIL">>>>]]

\* The text 1/0 graded against a canonical that parses.
NumericParseFailureGraded ==
    /\ pc = "done"
    /\ entry = "gradeDeterministic"
    /\ BothNumeric
    /\ payload.numeric # Undefined
    /\ payload.numeric[1].num = <<"1", "/", "0">>
    /\ CanonicalNumber # Null
    /\ outcome.value.result = "REVIEW"

\* gradeWithLLM has returned after the oracle replied.
OracleReplied ==
    pc = "done" /\ entry = "gradeWithLLM" /\ oracle.state = "resolved"

\* C4: when the oracle replies, gradeWithLLM returns PASS with score 1 for a
\* match of confidence >= 0.9, REVIEW with score 0.5 for a match of
\* confidence in [0.7, 0.9), and FAIL with score 0 for no match or a
\* confidence < 0.7; a match at 0.9 is PASS, at 0.89 REVIEW, at 0.7 REVIEW
\* and at 0.69 FAIL.
OracleReplyThresholds ==
    OracleReplied
        => /\ outcome.state = "resolved"
           /\ (oracle.value.match /\ oracle.value.confidence >= 90)
                 => (outcome.value.result = "PASS" /\ outcome.value.score = 100)
           /\ (/\ oracle.value.match
               /\ oracle.value.confidence >= 70
               /\ oracle.value.confidence < 90)
                 => (outcome.value.result = "REVIEW" /\ outcome.value.score = 50)
           /\ (~oracle.value.match \/ oracle.value.confidence < 70)
                 => (outcome.value.result = "FAIL" /\ outcome.value.score = 0)
           /\ (oracle.value.match /\ oracle.value.confidence = 90)
                 => outcome.value.result = "PASS"
           /\ (oracle.value.match /\ oracle.value.confidence = 89)
                 => outcome.value.result = "REVIEW"
           /\ (oracle.value.match /\ oracle.value.confidence = 70)
                 => outcome.value.result = "REVIEW"
           /\ (oracle.value.match /\ oracle.value.confidence = 69)
                 => outcome.value.result = "FAIL"

\* A scripted oracle replied a match at 0.89.
OracleRepliedBelowPass ==
    /\ OracleReplied
    /\ oracleImpl = "stub"
    /\ oracle.value.match
    /\ oracle.value.confidence = 89
    /\ outcome.value.result = "REVIEW"

\* C5: when the oracle call throws or rejects while gradeWithLLM grades an
\* algebra submission, gradeWithLLM returns exactly the GradeResponse of
\* gradeDeterministic for the same submission and canonical; 2x against 2*x
\* then passes with ALGEBRA_MATCH.
OracleRejectionFallsBack ==
    (pc = "done" /\ entry = "gradeWithLLM" /\ oracle.state = "rejected")
        => /\ outcome = [state |-> "resolved",
                         value |-> gradeDeterministic(payload, canonical)]
           /\ (/\ payload.algebra[1].expression = <<"2", "x">>
               /\ canonical.value = StringValue(<<"x", "^", "2">>))
                 => outcome.value = [result |-> "FAIL", score |-> 0,
                                     reasons |-> <<<<"ALGEBRA_MISMATCH">>>>]
           /\ (/\ payload.algebra[1].expression = <<"x", "U00B2">>
               /\ canonical.value = StringValue(<<"x", "^", "2">>))
                 => outcome.value = [result |-> "PASS", score |-> 100,
                                     reasons |-> <<<<"ALGEBRA_MATCH">>>>]

\* The oracle rejected and the fallback passed the submission.
OracleRejectionGraded ==
    /\ pc = "done"
    /\ entry = "gradeWithLLM"
    /\ oracle.state = "rejected"
    /\ payload.algebra[1].expression = <<"x", "U00B2">>
    /\ outcome.value.result = "PASS"

\* C6: when an algebra grading needs the external service (the submission is
\* not empty and is no exact match of the canonical or of a synonym) and the
\* external request fails, gradeWithLLM returns the GradeResponse of
\* gradeDeterministic for the same submission and canonical.
RequestFailureFallsBack ==
    (pc = "done" /\ entry = "gradeWithLLM" /\ request = "failed")
        => outcome = [state |-> "resolved",
                      value |-> gradeDeterministic(payload, canonical)]

\* C7: when the kind of the submission or of the canonical is not algebra,
\* gradeWithLLM returns exactly the GradeResponse of gradeDeterministic on
\* the same inputs, without invoking the oracle or issuing a request.
NonAlgebraDelegates ==
    (/\ entry = "gradeWithLLM"
     /\ (payload.type # "algebra" \/ canonical.type # "algebra"))
        => /\ pc = "done"
           /\ outcome = [state |-> "resolved",
                         value |-> gradeDeterministic(payload, canonical)]
           /\ oracleCalls = 0
           /\ oracle = NoPromise
           /\ requests = 0
           /\ request = "none"

\* gradeWithLLM passed a short answer.
ShortAnswerDelegated ==
    /\ pc = "done"
    /\ entry = "gradeWithLLM"
    /\ payload.type = "short"
    /\ canonical.type = "short"
    /\ outcome.value.reasons = <<<<"SHORT_MATCH">>>>

\* Every character of the text is white space.
WhiteSpaceOnly(text) == \A i \in 1..Len(text) : text[i] \in {" ", "\t"}

\* The submitted expression is missing, empty or white space only.
NothingSubmitted ==
    \/ payload.algebra = Undefined
    \/ WhiteSpaceOnly(payload.algebra[1].expression)

\* C8: for an algebra submission graded against an algebra canonical, when
\* the submitted expression is missing, empty or white space only,
\* gradeWithLLM returns {FAIL, 0, [EMPTY_SUBMISSION]} and the oracle is never
\* invoked.
EmptySubmissionFails ==
    (entry = "gradeWithLLM" /\ BothAlgebra /\ NothingSubmitted)
        => /\ pc = "done"
           /\ outcome = [state |-> "resolved",
                         value |-> [result |-> "FAIL", score |-> 0,
                                    reasons |-> <<<<"EMPTY_SUBMISSION">>>>]]
           /\ oracleCalls = 0
           /\ oracle = NoPromise
           /\ requests = 0

\* Two blanks were submitted as the expression.
BlankSubmissionGraded ==
    /\ pc = "done"
    /\ entry = "gradeWithLLM"
    /\ BothAlgebra
    /\ payload.algebra # Undefined
    /\ payload.algebra[1].expression = <<" ", " ">>
    /\ outcome.value.result = "FAIL"

\* The canonical expression and synonyms as stored.
StoredExpression ==
    IF canonical.value.isString THEN canonical.value.str
    ELSE canonical.value.expression

StoredSynonyms ==
    IF canonical.value.isString \/ canonical.value.synonyms = Undefined
    THEN <<>>
    ELSE canonical.value.synonyms[1]

\* The submission is not empty and equals, after trimming, the non-empty
\* canonical expression or a synonym.
SubmittedVerbatim ==
    /\ payload.algebra # Undefined
    /\ trim(payload.algebra[1].expression) # <<>>
    /\ trim(StoredExpression) # <<>>
    /\ \/ trim(payload.algebra[1].expression) = trim(StoredExpression)
       \/ \E i \in 1..Len(StoredSynonyms) :
             trim(payload.algebra[1].expression) = trim(StoredSynonyms[i])

\* C9: for a non-empty algebra submission that equals, after trimming, the
\* non-empty canonical expression or any synonym, the oracle returns
\* {match: true, confidence: 1.0} without making an external request, and
\* gradeWithLLM returns PASS with score 1 whether or not the external service
\* is available.
VerbatimMatchShortCircuits ==
    (/\ entry = "gradeWithLLM"
     /\ oracleImpl = "shipped"
     /\ BothAlgebra
     /\ SubmittedVerbatim)
        => /\ requests = 0
           /\ request = "none"
           /\ pc \in {"awaitOracle", "done"}
           /\ oracle.state = "resolved"
           /\ oracle.value.match
           /\ oracle.value.confidence = 100
           /\ pc = "done" => /\ outcome.state = "resolved"
                             /\ outcome.value.result = "PASS"
                             /\ outcome.value.score = 100

\* A synonym was submitted verbatim to the shipped oracle.
SynonymSubmitted ==
    /\ pc = "done"
    /\ entry = "gradeWithLLM"
    /\ oracleImpl = "shipped"
    /\ BothAlgebra
    /\ SubmittedVerbatim
    /\ trim(payload.algebra[1].expression) # trim(StoredExpression)
    /\ outcome.value.result = "PASS"

\* C10: for every submission and canonical of the documented shapes and every
\* oracle outcome, gradeWithLLM eventually resolves with a GradeResponse whose
\* result is PASS, FAIL or REVIEW, provided the external request eventually
\* replies or fails; it never rejects.
GradingTerminatesWithVerdict ==
    /\ [](outcome.state # "rejected")
    /\ []((pc = "done" /\ entry = "gradeWithLLM")
             => /\ outcome.state = "resolved"
                /\ outcome.value.result \in {"PASS", "FAIL", "REVIEW"})
    /\ (entry = "gradeWithLLM") ~> (entry = "gradeWithLLM" /\ pc = "done")

\* gradeWithLLM returned a verdict after the external request failed.
VerdictAfterRequestFailure ==
    /\ pc = "done"
    /\ entry = "gradeWithLLM"
    /\ request = "failed"
    /\ outcome.state = "resolved"
    /\ outcome.value.result \in {"PASS", "FAIL", "REVIEW"}

\* gradeDeterministic has returned.
DeterministicDone == pc = "done" /\ entry = "gradeDeterministic"

\* gradeWithLLM has returned.
LLMDone == pc = "done" /\ entry = "gradeWithLLM"

\* C11: every GradeResponse returned by gradeDeterministic carries exactly
\* one reason code in reasons, in every branch (type mismatch, numeric pass
\* or fail with or without required units, multiple-choice, short-text,
\* algebra).
ExactlyOneReason ==
    DeterministicDone => Len(outcome.value.reasons) = 1

\* C12: gradeDeterministic returns score 1 with PASS and score 0 with FAIL or
\* REVIEW; gradeWithLLM returns a score in [0,1] that is 1 iff the result is
\* PASS.
ScoreFollowsResult ==
    /\ DeterministicDone
          => /\ outcome.value.result \in {"PASS", "FAIL", "REVIEW"}
             /\ outcome.value.score =
                   IF outcome.value.result = "PASS" THEN 100 ELSE 0
    /\ LLMDone
          => /\ outcome.value.score \in 0..100
             /\ outcome.value.score = 100 <=> outcome.value.result = "PASS"

\* gradeWithLLM returned REVIEW for an uncertain reply of the oracle.
UncertainReplyScored ==
    /\ LLMDone
    /\ oracle.state = "resolved"
    /\ outcome.value.result = "REVIEW"
    /\ outcome.value.score = 50

\* The units of a numeric grading: those the canonical requires and those
\* submitted.
RequiredUnits ==
    IF canonical.value.isString THEN Undefined ELSE canonical.value.units

GivenUnits ==
    IF payload.numeric = Undefined THEN Undefined ELSE payload.numeric[1].units

\* The submission p with the units su, and the canonical c requiring cu.
WithSubmittedUnits(p, su) == NumericPayload(SubmittedNum(p), su)

WithRequiredUnits(c, cu) ==
    Canonical("numeric",
              CanonicalNumeric(CanonicalNum(c), cu, CanonicalTolerance(c)))

SubmittedChoice ==
    IF payload.mc = Undefined THEN <<>> ELSE payload.mc[1].choice

\* gradeDeterministic has graded the choice against the canonical letter.
ChoiceCase(choice, letter) ==
    /\ DeterministicDone
    /\ payload = MCPayload(choice)
    /\ canonical = Canonical("mc", StringValue(letter))

\* C14: for multiple-choice, gradeDeterministic returns PASS iff the trimmed
\* submitted choice is non-empty and exactly, case-sensitively, equal to the
\* trimmed canonical letter; canonical B with submission b is FAIL.
ChoiceMatchesExactly ==
    /\ (DeterministicDone /\ payload.type = "mc" /\ canonical.type = "mc")
          => outcome.value.result =
                IF /\ trim(SubmittedChoice) # <<>>
                   /\ trim(SubmittedChoice) = trim(canonical.value.str)
                THEN "PASS" ELSE "FAIL"
    /\ ChoiceCase(<<"b">>, <<"B">>) => outcome.value.result = "FAIL"
    /\ ChoiceCase(<<" ", "B", " ">>, <<" ", "B">>) => outcome.value.result = "PASS"

\* The choice b was graded against the canonical B.
LowercaseChoiceGraded ==
    /\ ChoiceCase(<<"b">>, <<"B">>)
    /\ outcome.value.result = "FAIL"
    /\ outcome.value.reasons = <<<<"MC_MISMATCH">>>>

\* The short text submitted ('' when there is none), trimmed and lowercased.
SubmittedShort ==
    toLowerCase(trim(IF payload.short = Undefined THEN <<>>
                     ELSE payload.short[1].text))

\* The canonical short text.
StoredText ==
    IF canonical.value.isString THEN canonical.value.str ELSE canonical.value.text

\* C15: for short-text, gradeDeterministic returns PASS iff the trimmed,
\* lowercased submission is non-empty and either equals the trimmed,
\* lowercased canonical text or is an element of the synonym list compared as
\* given; a synonym with an uppercase letter or outer whitespace is never the
\* one matched.
ShortTextMatches ==
    (DeterministicDone /\ payload.type = "short" /\ canonical.type = "short")
        => /\ outcome.value.result =
                 IF /\ SubmittedShort # <<>>
                    /\ \/ SubmittedShort = toLowerCase(trim(StoredText))
                       \/ \E i \in 1..Len(StoredSynonyms) :
                             StoredSynonyms[i] = SubmittedShort
                 THEN "PASS" ELSE "FAIL"
           /\ \A i \in 1..Len(StoredSynonyms) :
                 (/\ StoredSynonyms[i] # toLowerCase(trim(StoredSynonyms[i]))
                  /\ outcome.value.result = "PASS")
                    => \/ SubmittedShort = toLowerCase(trim(StoredText))
                       \/ \E j \in 1..Len(StoredSynonyms) :
                             /\ j # i
                             /\ StoredSynonyms[j] = SubmittedShort

\* A synonym stored with a capital letter was submitted as stored and failed.
CapitalisedSynonymFailed ==
    /\ DeterministicDone
    /\ payload = ShortPayload(<<"P", "a", "n", "a", "m", "e">>)
    /\ canonical.type = "short"
    /\ Includes(StoredSynonyms, <<"P", "a", "n", "a", "m", "e">>)
    /\ outcome.value.result = "FAIL"

\* The algebra submission of a grading, normalized.
NormalizedSubmission ==
    normalizeAlgebraExpression(IF payload.algebra = Undefined THEN <<>>
                               ELSE payload.algebra[1].expression)

\* C16: for algebra graded by gradeDeterministic, the result is PASS iff the
\* normalized submission is non-empty and equals the normalized canonical
\* expression or the normalization of at least one synonym; otherwise FAIL.
AlgebraNormalizedMatch ==
    (DeterministicDone /\ payload.type = "algebra" /\ canonical.type = "algebra")
        => outcome.value.result =
              IF /\ NormalizedSubmission # <<>>
                 /\ \/ NormalizedSubmission
                          = normalizeAlgebraExpression(StoredExpression)
                    \/ \E i \in 1..Len(StoredSynonyms) :
                          NormalizedSubmission
                             = normalizeAlgebraExpression(StoredSynonyms[i])
              THEN "PASS" ELSE "FAIL"

\* A submission passed because it normalizes to the same text as a synonym
\* that it does not equal as typed.
SynonymMatchedNormalized ==
    /\ DeterministicDone
    /\ payload.type = "algebra"
    /\ canonical.type = "algebra"
    /\ outcome.value.result = "PASS"
    /\ NormalizedSubmission # normalizeAlgebraExpression(StoredExpression)
    /\ \A i \in 1..Len(StoredSynonyms) :
          trim(payload.algebra[1].expression) # trim(StoredSynonyms[i])

\* A text function has returned its result for the text typed.
Classified == pc = "done" /\ entry = "getAnswerType"

Inferred == pc = "done" /\ entry = "inferTypeAndCanonical"

TypedText == trim(argument.text)

\* The rules of the classifier, as stated: a single letter A-D in either
\* case; a Latin letter or one of the listed glyphs and operators anywhere.
SingleChoiceLetter(t) ==
    Len(t) = 1 /\ ToUpperChar(t[1]) \in {"A", "B", "C", "D"}

HasLetterOrOperator(t) ==
    \E i \in 1..Len(t) :
        \/ IsLetter(t[i])
        \/ t[i] \in {Radic, CubeRoot, PiGlyph, InfGlyph,
                     "^", "+", "-", "*", "/", "(", ")", "="}

\* getAnswerType has classified the text.
ClassifiedText(text) == Classified /\ argument.text = text

\* C17: the classifier applies its rules in strict first-match priority:
\* multiple-choice, numeric, algebraic, short-text, unknown.  A single letter
\* a-d or A-D is multiple-choice although it matches the algebraic rule; any
\* other text that is not a number and contains a Latin letter or a listed
\* symbol is algebraic, never short-text (vertex, summit, sin(x)); short-text
\* is returned only for non-empty text matching none of the earlier rules;
\* empty-after-trim text is unknown.
FirstMatchPriority ==
    /\ Classified
          => /\ SingleChoiceLetter(TypedText) <=> outcome.value.type = "mc"
             /\ (~SingleChoiceLetter(TypedText) /\ IsNumericText(TypedText))
                   <=> outcome.value.type = "numeric"
             /\ (/\ ~SingleChoiceLetter(TypedText)
                 /\ ~IsNumericText(TypedText)
                 /\ HasLetterOrOperator(TypedText))
                   <=> outcome.value.type = "algebra"
             /\ outcome.value.type = "short"
                   <=> /\ TypedText # <<>>
                       /\ ~SingleChoiceLetter(TypedText)
                       /\ ~IsNumericText(TypedText)
                       /\ ~HasLetterOrOperator(TypedText)
             /\ outcome.value.type = "unknown" <=> TypedText = <<>>
    /\ ClassifiedText(<<"v", "e", "r", "t", "e", "x">>) => outcome.value.type = "algebra"
    /\ ClassifiedText(<<"s", "u", "m", "m", "i", "t">>) => outcome.value.type = "algebra"
    /\ ClassifiedText(<<"s", "i", "n", "(", "x", ")">>) => outcome.value.type = "algebra"

\* The letter b, which the algebraic rule matches too, was classified.
ChoiceLetterClassified ==
    /\ ClassifiedText(<<" ", "b">>)
    /\ HasLetterOrOperator(TypedText)
    /\ outcome.value.type = "mc"

\* The kind a classification reported or stored.
ReportedKind == outcome.value.type

\* A fraction whose denominator is zero.
ZeroDenominator(t) ==
    /\ IsFractionText(t)
    /\ \A i \in (SlashIndex(t) + 1)..Len(t) : t[i] = "0"

\* C18: the classifier returns numeric for a simple fraction integer/integer
\* only when the denominator is not zero; 1/0 is not classified numeric.
ZeroDenominatorNotNumeric ==
    ((Classified \/ Inferred) /\ ZeroDenominator(TypedText))
        => ReportedKind # "numeric"

NormalizerIdempotent ==
    (pc = "done" /\ entry = "normalizeAlgebraExpression")
        => normalizeAlgebraExpression(outcome.value.expression)
              = outcome.value.expression

\* normalizeAlgebraExpression has returned.
Normalized == pc = "done" /\ entry = "normalizeAlgebraExpression"

\* The caret notation of a character: ^ and the digit for a superscript digit
\* glyph, the character itself otherwise.
CaretOf(c) ==
    IF \E k \in 1..10 : SuperSeq[k] = c
    THEN <<"^", DigitSeq[CHOOSE k \in 1..10 : SuperSeq[k] = c]>>
    ELSE <<c>>

\* The expression e with the glyph at index i, or every glyph, in caret
\* notation.
CaretAt(e, i) == SubSeq(e, 1, i - 1) \o CaretOf(e[i]) \o SubSeq(e, i + 1, Len(e))

RECURSIVE CaretForm(_)
CaretForm(e) == IF e = <<>> THEN <<>> ELSE CaretOf(Head(e)) \o CaretForm(Tail(e))

\* C21: superscript-digit notation and caret notation normalize identically:
\* replacing any superscript digit glyph of an expression by ^ and the digit
\* leaves its normalization unchanged; x² + 4x + 4 and x^2 + 4x + 4 normalize
\* to the same text.
SuperscriptIsCaret ==
    /\ Normalized
          => /\ normalizeAlgebraExpression(CaretForm(argument.text))
                   = outcome.value.expression
             /\ \A i \in 1..Len(argument.text) :
                   normalizeAlgebraExpression(CaretAt(argument.text, i))
                      = outcome.value.expression
    /\ (Normalized
        /\ argument.text = <<"x", "U00B2", " ", "+", " ", "4", "x", " ", "+", " ", "4">>)
          => outcome.value.expression
                = normalizeAlgebraExpression(
                      <<"x", "^", "2", " ", "+", " ", "4", "x", " ", "+", " ", "4">>)

\* An expression with a superscript under a radical sign was normalized.
SuperscriptNormalized ==
    /\ Normalized
    /\ \E i \in 1..Len(argument.text) : argument.text[i] = "U00B2"
    /\ \E i \in 1..Len(argument.text) : argument.text[i] = "U221A"
    /\ CaretForm(argument.text) # argument.text
    /\ \E i \in 1..Len(outcome.value.expression) :
          outcome.value.expression[i] = "^"

\* The text consists of lowercase letters only: one run of letters.
LetterRun(t) == t # <<>> /\ \A i \in 1..Len(t) : IsLower(t[i])

\* normalizeAlgebraExpression has normalized the text.
NormalizedText(text) == Normalized /\ argument.text = text

\* C22: the normalizer inserts * between two adjacent lowercase letters only
\* when they form a run of exactly two letters; runs of three or more
\* letters, function names such as sin and sqrt in particular, come out with
\* no * inserted inside them.
StarOnlyInPairs ==
    /\ (Normalized /\ LetterRun(argument.text) /\ Len(argument.text) = 2)
          => outcome.value.expression
                = <<argument.text[1], "*", argument.text[2]>>
    /\ (Normalized /\ LetterRun(argument.text) /\ Len(argument.text) >= 3)
          => outcome.value.expression = argument.text
    /\ NormalizedText(<<"s", "i", "n", "(", "x", ")">>)
          => outcome.value.expression = <<"s", "i", "n", "(", "x", ")">>
    /\ NormalizedText(<<"s", "q", "r", "t", "(", "x", ")">>)
          => outcome.value.expression = <<"s", "q", "r", "t", "(", "x", ")">>

\* parseNumber has returned for the text.
Parsed == pc = "done" /\ entry = "parseNumber"

ParsedText(text) == Parsed /\ argument.text = text

\* The value of a run of decimal digits.
RECURSIVE DigitsValue(_)
DigitsValue(ds) ==
    IF ds = <<>> THEN 0
    ELSE 10 * DigitsValue(SubSeq(ds, 1, Len(ds) - 1)) + DigitVal(ds[Len(ds)])

\* The signed numerator and the denominator of a text [sign]digits/digits.
Numerator(t) ==
    IF t[1] = "-" THEN 0 - DigitsValue(SubSeq(t, 2, SlashIndex(t) - 1))
    ELSE IF t[1] = "+" THEN DigitsValue(SubSeq(t, 2, SlashIndex(t) - 1))
    ELSE DigitsValue(SubSeq(t, 1, SlashIndex(t) - 1))

Denominator(t) == DigitsValue(SubSeq(t, SlashIndex(t) + 1, Len(t)))

\* C23: parseNumber on trimmed text of the form [sign]digits/digits returns
\* the quotient numerator/denominator, the sign applied to the numerator,
\* when the denominator is not zero and null when it is zero; it never
\* throws.  3/4 gives 0.75, 1/2 gives 0.5, 1/0 fails, 'invalid' fails.
FractionParses ==
    /\ Parsed
          => /\ outcome.state = "resolved"
             /\ IsFractionText(TypedText)
                   => IF Denominator(TypedText) = 0
                      THEN outcome.value.number = Null
                      ELSE /\ outcome.value.number # Null
                           /\ outcome.value.number.d > 0
                           /\ outcome.value.number.n * Denominator(TypedText)
                                 = Numerator(TypedText) * outcome.value.number.d
    /\ ParsedText(<<"3", "/", "4">>) => outcome.value.number = [n |-> 3, d |-> 4]
    /\ ParsedText(<<"1", "/", "2">>) => outcome.value.number = [n |-> 1, d |-> 2]
    /\ ParsedText(<<"1", "/", "0">>) => outcome.value.number = Null
    /\ ParsedText(<<"i", "n", "v", "a", "l", "i", "d">>)
          => outcome.value.number = Null

\* A fraction over zero was parsed.
FractionOverZeroParsed ==
    /\ Parsed
    /\ IsFractionText(TypedText)
    /\ Denominator(TypedText) = 0
    /\ Numerator(TypedText) # 0
    /\ outcome.value.number = Null

\* C24: gradeWithLLM issues at most one external request per grading
\* invocation; after that request fails no further request is made and the
\* next step of the invocation is its return with the fallback result.
SingleRequestNoRetry ==
    /\ [](requests <= 1)
    /\ [][(request = "failed" /\ pc # "done")
             => /\ pc' = "done"
                /\ requests' = requests
                /\ request' = "failed"
                /\ outcome'.state = "resolved"
                /\ outcome'.value = Threshold(oracle.value)]_vars
    /\ [][(request = "failed" /\ pc = "done") => requests' = 0]_vars

\* The one request of an invocation failed and the oracle has its fallback
\* reply.
FailedRequestNotRetried ==
    /\ entry = "gradeWithLLM"
    /\ pc = "awaitOracle"
    /\ request = "failed"
    /\ requests = 1
    /\ oracle.state = "resolved"
    /\ oracle.value.confidence = 70

\* What gradeWithLLM returns for p and c when it runs alone and its oracle,
\* if it is invoked, settles as the promise did.
RunAlone(p, c, promise) ==
    IF p.type # "algebra" \/ c.type # "algebra"
    THEN Resolved(gradeDeterministic(p, c))
    ELSE IF AlgebraSubmitted(p) = <<>> THEN Resolved(EmptySubmission)
    ELSE IF promise.state = "rejected" THEN Resolved(gradeDeterministic(p, c))
    ELSE Resolved(Threshold(promise.value))

\* C25: concurrent grading invocations share no mutable state: in any
\* interleaving of in-flight gradeWithLLM calls, each possibly suspended at
\* its oracle await, every call returns the GradeResponse it would return if
\* run alone with the same submission, canonical and oracle reply; a step of
\* one call changes nothing of another, and neither the submission nor the
\* canonical of a call is modified.
ConcurrentCallsIndependent ==
    /\ [](\A i \in Calls :
             calls[i].pc = "done"
                => calls[i].outcome = RunAlone(calls[i].payload, calls[i].canonical,
                                               calls[i].oracle))
    /\ [][\A i \in Calls :
             /\ (calls[i].pc # "idle" /\ calls'[i].pc # "idle")
                   => /\ calls'[i].payload = calls[i].payload
                      /\ calls'[i].canonical = calls[i].canonical
             /\ calls'[i] # calls[i]
                   => \A j \in Calls \ {i} : calls'[j] = calls[j]]_vars

\* One call has returned while another, graded on a different reply, is
\* still suspended at its await.
CallsInterleaved ==
    /\ calls[1].pc = "done"
    /\ calls[1].oracle.state = "resolved"
    /\ calls[2].pc = "awaitOracle"
    /\ calls[2].oracle.state \in {"resolved", "rejected"}
    /\ calls[2].oracle # calls[1].oracle
    /\ calls[1].payload = calls[2].payload
    /\ calls[1].canonical = calls[2].canonical

\* The provenance and the extraction confidence a submission may carry.
Metadata ==
    {<<"typed", Undefined>>, <<"vision", Some(0)>>, <<"typed_fallback", Some(97)>>,
     <<"vision", Some(100)>>}

\* The submission p with the metadata md.
WithMetadata(p, md) == [p EXCEPT !.source = md[1], !.ocrConf = md[2]]

\* C26: grading does not depend on extraction metadata: submissions that
\* differ only in ocrConf and source receive the same result, score and
\* reasons from gradeDeterministic and, given the same oracle reply, from
\* gradeWithLLM.
MetadataNeverDecides ==
    /\ DeterministicDone
          => \A md \in Metadata :
                gradeDeterministic(WithMetadata(payload, md), canonical)
                   = outcome.value
    /\ LLMDone
          => \A md \in Metadata :
                RunAlone(WithMetadata(payload, md), canonical, oracle) = outcome

\* gradeWithLLM graded a submission extracted by vision on the oracle's reply.
ExtractedSubmissionGraded ==
    /\ LLMDone
    /\ payload.source = "vision"
    /\ payload.ocrConf = Some(100)
    /\ oracle.state = "resolved"
    /\ outcome.value.result = "PASS"


\* C27: the extraction endpoint answers 'grade', with a payload, only when
\* the vision model replied with an object that does not abstain, reports a
\* confidence that is at least the threshold and carries a value that is not
\* empty once trimmed; every other accepted request (abstention, a low or
\* missing confidence, an empty value, an unparsable reply, a failed request,
\* the LLM disabled) is answered 'rewrite' with no payload, and a request
\* that is not accepted (405, 400) carries neither.  The payload holds the
\* trimmed value and the reported confidence.
ExtractDone == pc = "done" /\ entry = "visionExtract"

Accepted == argument.method = "POST" /\ argument.hasFields

Reply == argument.completion

ReplyAcceptable ==
    /\ argument.useLLM
    /\ Reply.kind = "object"
    /\ Reply.data.abstain \in {Undefined, Some(FALSE)}
    /\ Reply.data.confidence # Undefined
    /\ Reply.data.confidence[1] # NaN
    /\ Reply.data.confidence[1].n * argument.threshold.d
           >= argument.threshold.n * Reply.data.confidence[1].d
    /\ Reply.data.value # Undefined
    /\ \E i \in 1..Len(Reply.data.value[1]) : ~IsSpace(Reply.data.value[1][i])

OnlyConfidentExtractionsGraded ==
    ExtractDone =>
        /\ ~Accepted => outcome.value.status = "none" /\ outcome.value.payload = Undefined
        /\ Accepted /\ ReplyAcceptable =>
              /\ outcome.value.status = "grade"
              /\ outcome.value.payload # Undefined
              /\ outcome.value.payload[1].value = trim(Reply.data.value[1])
              /\ outcome.value.payload[1].confidence = Reply.data.confidence[1]
        /\ Accepted /\ ~ReplyAcceptable =>
              /\ outcome.value.status = "rewrite"
              /\ outcome.value.payload = Undefined

\* A model that abstains although it reports full confidence and a value.
AbstentionRewritten ==
    /\ ExtractDone
    /\ Accepted
    /\ argument.useLLM
    /\ Reply.kind = "object"
    /\ Reply.data.abstain = Some(TRUE)
    /\ Reply.data.confidence = Some(Rat(1, 1))
    /\ Reply.data.value = Some(<<"x", "U00B2">>)
    /\ outcome.value.status = "rewrite"


\* C28: the grading endpoint builds a payload whose kind is the canonical's
\* kind and in which exactly the sub-payload of that kind is populated,
\* carrying the extracted value as it was sent; no request graded through
\* the endpoint is answered with the reason TYPE_MISMATCH.
HandlerGrading ==
    entry = "gradeHandler" /\ argument.method = "POST" /\ argument.hasFields

SubPayloadText(p) ==
    CASE p.type = "numeric" -> p.numeric[1].num
      [] p.type = "mc" -> p.mc[1].choice
      [] p.type = "short" -> p.short[1].text
      [] p.type = "algebra" -> p.algebra[1].expression

AnswerText(p) ==
    CASE p.type = "numeric" -> IF p.numeric = Undefined THEN <<>> ELSE p.numeric[1].num
      [] p.type = "mc" -> IF p.mc = Undefined THEN <<>> ELSE p.mc[1].choice
      [] p.type = "short" -> IF p.short = Undefined THEN <<>> ELSE p.short[1].text
      [] p.type = "algebra" ->
            IF p.algebra = Undefined THEN <<>> ELSE p.algebra[1].expression

EmptyAnswerNeverPasses ==
    (DeterministicDone /\ payload.type = canonical.type
        /\ \A i \in 1..Len(AnswerText(payload)) : IsSpace(AnswerText(payload)[i]))
        => outcome.value.result # "PASS"


\* C30 as stated: with the shipped oracle, which never rejects and reports
\* only the confidences 1.0, 0.95 and 0.7, gradeWithLLM returns REVIEW for an
\* algebra submission only when the external request failed and the simple
\* normalization matched (confidence 0.7); whenever the service replies the
\* verdict is PASS or FAIL.
ShippedDone == LLMDone /\ oracleImpl = "shipped"

ShippedOracleSettles ==
    /\ oracle.state = "resolved"
    /\ oracle.value.confidence \in {QuickConfidence, LLMConfidence, FallbackConfidence}

=============================================================================
